---- MODULE Spec2Model ----
(***************************************************************************)
(* Model of the intent dispatch and response composition pipeline of the   *)
(* voice skill SDK: Context / Intent / LocalContext (skill_sdk/intents.py),*)
(* the intent registry of Skill (skill_sdk/skill.py), the Reprompt and     *)
(* Response objects (skill_sdk/responses.py, known here through            *)
(* tests/response_test.py) and the header codec of the tracing adapter     *)
(* (skill_sdk/tracing.py).                                                 *)
(***************************************************************************)
EXTENDS Integers, Sequences, FiniteSets, TLC

(***************************************************************************)
(* Bounds of the model                                                     *)
(***************************************************************************)
MaxPush == 2     \* push messages queued at a time, on all contexts together

None == "None"
NoCtx == 0                  \* no Context object (Python None)
NoValue == [kind |-> "None"]  \* Python None as a returned value
Unset == <<>>               \* an optional field holding None
Some(x) == <<x>>            \* an optional field holding x

CtxIds == {1, 2}  \* two Context objects: the one passed to a call, and another
TargetNames == {"dev_a", "dev_b"}
Payloads == {"p1", "p2"}
Texts == {"hello", "bye"}

RESPONSE_TYPE_TELL == "TELL"
RESPONSE_TYPE_ASK == "ASK"
RESPONSE_TYPE_ASK_FREETEXT == "ASK_FREETEXT"
ResponseTypes == {RESPONSE_TYPE_TELL, RESPONSE_TYPE_ASK, RESPONSE_TYPE_ASK_FREETEXT}

HttpExceptions == {"RequestException", "HTTPError", "CircuitBreakerError"}
OtherExceptions == {"KeyError"}

VARIABLES
    ctxs,       \* Context objects: id -> [alive, push_messages]
    current,    \* LocalContext._thread_locals.context of the serving thread
    last,       \* the Intent.__call__ that has just returned or raised
    dicts,      \* dict objects, by identity: dicts[1] is Skill.__intents
    skills,     \* Skill instances: id -> the dict its `intents` proxy views (0: not created)
    created,    \* the handler objects made by handlers.intent_handler, in order
    sret,       \* the Skill operation that has just returned or raised
    session,    \* attributes of the Session of the conversation: key -> value
    rlast,      \* the Reprompt that has just been serialized
    run,        \* position in the current run of consecutive reprompts
    cx,         \* the Context of the request being served, once constructed
    cret,       \* the Context operation that has just returned or raised
    clock,      \* the current instant, in UTC
    machine_tz, \* the local timezone of the process
    response,   \* the Response or ErrorResponse at hand
    pret,       \* the Response operation that has just returned or raised
    carrier,    \* the carrier of tracing headers at hand
    tret,       \* the Tracer operation that has just returned or raised
    locals,     \* LocalContext._thread_locals.context, thread by thread
    made,       \* the Context objects constructed: [by (thread), intent_name]
    lret        \* the LocalContext operation that has just returned or raised

ivars == <<ctxs, current, last>>
svars == <<dicts, skills, created, sret>>
rvars == <<session, rlast, run>>
cvars == <<cx, cret, clock, machine_tz>>
pvars == <<response, pret>>
tvars == <<carrier, tret>>
lvars == <<locals, made, lret>>
vars == <<ctxs, current, last, dicts, skills, created, sret, session, rlast, run,
          cx, cret, clock, machine_tz, response, pret, carrier, tret,
          locals, made, lret>>

(***************************************************************************)
(* Context.push_messages is a defaultdict(list): an insertion-ordered      *)
(* mapping target name -> list of payloads.  It is modelled as a sequence  *)
(* of entries [name, payloads] in insertion order.                         *)
(***************************************************************************)
ContextInit == [alive |-> TRUE, push_messages |-> <<>>]

HasName(pm, name) == \E i \in 1..Len(pm) : pm[i].name = name

\* context.push_messages[name]: a missing key is created with an empty list
Touch(pm, name) ==
    IF HasName(pm, name) THEN pm
    ELSE Append(pm, [name |-> name, payloads |-> <<>>])

\* context.push_messages[name].append(payload)
PushAppend(pm, name, payload) ==
    LET t == Touch(pm, name)
    IN [i \in 1..Len(t) |->
          IF t[i].name = name
          THEN [t[i] EXCEPT !.payloads = Append(@, payload)]
          ELSE t[i]]

RECURSIVE PairUp(_, _)
PairUp(name, payloads) ==
    IF payloads = <<>> THEN <<>>
    ELSE <<<<name, Head(payloads)>>>> \o PairUp(name, Tail(payloads))

\* the (name, payload) list built by the two nested loops
RECURSIVE Messages(_)
Messages(pm) ==
    IF pm = <<>> THEN <<>>
    ELSE PairUp(Head(pm).name, Head(pm).payloads) \o Messages(Tail(pm))

\* Response(text): type_ defaults to TELL, no push notification
ResponseInit(text, type_) ==
    [text |-> text, type_ |-> type_, push_notification |-> Unset]

\* _('GENERIC_HTTP_ERROR_RESPONSE')
Gettext(msgid) == <<"translated", msgid>>

(***************************************************************************)
(* Intent._append_push_messages(_context, response), on push_messages pm   *)
(* of the context and the response object r of heap h.                     *)
(***************************************************************************)
RefTo(r) == [kind |-> "Response", id |-> r]

\* variant: the last message is attached and the others are dropped silently
append_push_messages_no_raise(pm, h, r) ==
    LET messages == Messages(pm)
    IN IF messages = <<>>
       THEN [heap |-> h, exc |-> None, ret |-> RefTo(r)]
       ELSE LET message == messages[Len(messages)]
            IN [heap |-> [h EXCEPT ![r].push_notification =
                            Some([targetName |-> message[1], messagePayload |-> message[2]])],
                exc |-> None, ret |-> RefTo(r)]

\* variant: the notification of a response is cleared when nothing is queued
append_push_messages_clearing(pm, h, r) ==
    LET messages == Messages(pm)
    IN IF messages = <<>>
       THEN [heap |-> [h EXCEPT ![r].push_notification = Unset],
             exc |-> None, ret |-> RefTo(r)]
       ELSE LET message == messages[Len(messages)]
                rest == SubSeq(messages, 1, Len(messages) - 1)
                h2 == [h EXCEPT ![r].push_notification =
                          Some([targetName |-> message[1], messagePayload |-> message[2]])]
            IN IF rest # <<>>
               THEN [heap |-> h2, exc |-> "ValueError", ret |-> NoValue]
               ELSE [heap |-> h2, exc |-> None, ret |-> RefTo(r)]

append_push_messages(pm, h, r) ==
    LET messages == Messages(pm)
    IN IF messages = <<>>
       THEN [heap |-> h, exc |-> None, ret |-> RefTo(r)]
       ELSE LET message == messages[Len(messages)]
                rest == SubSeq(messages, 1, Len(messages) - 1)
                h2 == [h EXCEPT ![r].push_notification =
                          Some([targetName |-> message[1], messagePayload |-> message[2]])]
            IN IF rest # <<>>
               THEN [heap |-> h2, exc |-> "ValueError", ret |-> NoValue]
               ELSE [heap |-> h2, exc |-> None, ret |-> RefTo(r)]

(***************************************************************************)
(* _append_push_messages(context, response) through the module-level proxy *)
(* `context` (LocalContext): attributes are read from the current Context  *)
(* of the thread.  Without one, __getattr__ logs and yields None, and       *)
(* None.items() fails with AttributeError.                                 *)
(***************************************************************************)
append_push_messages_proxy(cs, cur, h, r) ==
    IF cur = NoCtx
    THEN [heap |-> h, exc |-> "AttributeError", ret |-> NoValue]
    ELSE append_push_messages(cs[cur].push_messages, h, r)

(***************************************************************************)
(* Intent._log_return_value(result): result is the handler's return value. *)
(*   [kind "Response", id]   a Response object of the heap                 *)
(*   [kind "ErrorResponse", code]                                          *)
(*   [kind "str", text]                                                    *)
(*   [kind "other"]          None, a number, a dict, ...                   *)
(***************************************************************************)
\* variant: a Response result is copied into a new object before the merge
log_return_value_copying(cs, cur, h, result) ==
    IF result.kind = "Response"
    THEN LET h1 == Append(h, h[result.id])
         IN append_push_messages_proxy(cs, cur, h1, Len(h1))
    ELSE IF result.kind = "ErrorResponse"
    THEN [heap |-> h, exc |-> None, ret |-> result]
    ELSE IF result.kind = "str"
    THEN LET h1 == Append(h, ResponseInit(result.text, RESPONSE_TYPE_TELL))
         IN append_push_messages_proxy(cs, cur, h1, Len(h1))
    ELSE [heap |-> h, exc |-> "ValueError", ret |-> NoValue]

\* variant: an ErrorResponse goes through the merge of the push messages too
log_return_value_merging_errors(cs, cur, h, result) ==
    IF result.kind = "Response"
    THEN append_push_messages_proxy(cs, cur, h, result.id)
    ELSE IF result.kind = "ErrorResponse"
    THEN LET h1 == Append(h, ResponseInit(<<>>, RESPONSE_TYPE_TELL))
             out == append_push_messages_proxy(cs, cur, h1, Len(h1))
         IN IF out.exc # None THEN [heap |-> h, exc |-> out.exc, ret |-> NoValue]
            ELSE [heap |-> h, exc |-> None,
                  ret |-> [kind |-> "ErrorResponse", code |-> result.code,
                           push_notification |-> out.heap[Len(h1)].push_notification]]
    ELSE IF result.kind = "str"
    THEN LET h1 == Append(h, ResponseInit(result.text, RESPONSE_TYPE_TELL))
         IN append_push_messages_proxy(cs, cur, h1, Len(h1))
    ELSE [heap |-> h, exc |-> "ValueError", ret |-> NoValue]

\* variant: a result of another type is answered with an empty TELL response
log_return_value_lenient(cs, cur, h, result) ==
    IF result.kind = "Response"
    THEN append_push_messages_proxy(cs, cur, h, result.id)
    ELSE IF result.kind = "ErrorResponse"
    THEN [heap |-> h, exc |-> None, ret |-> result]
    ELSE IF result.kind = "str"
    THEN LET h1 == Append(h, ResponseInit(result.text, RESPONSE_TYPE_TELL))
         IN append_push_messages_proxy(cs, cur, h1, Len(h1))
    ELSE LET h1 == Append(h, ResponseInit(<<>>, RESPONSE_TYPE_TELL))
         IN [heap |-> h1, exc |-> None, ret |-> RefTo(Len(h1))]

log_return_value(cs, cur, h, result) ==
    IF result.kind = "Response"
    THEN append_push_messages_proxy(cs, cur, h, result.id)
    ELSE IF result.kind = "ErrorResponse"
    THEN [heap |-> h, exc |-> None, ret |-> result]
    ELSE IF result.kind = "str"
    THEN LET h1 == Append(h, ResponseInit(result.text, RESPONSE_TYPE_TELL))
         IN append_push_messages_proxy(cs, cur, h1, Len(h1))
    ELSE [heap |-> h, exc |-> "ValueError", ret |-> NoValue]

(***************************************************************************)
(* Intent.__call__(_context): behaviour is what the implementation is and  *)
(* what it does when invoked: [named |-> whether it has a __name__,        *)
(* raises |-> exception or None, result |-> return value].  Intent accepts *)
(* any callable; a function has a __name__, a functools.partial or an      *)
(* object with __call__ has none.                                          *)
(***************************************************************************)
\* the outcome of a call that fails at the debug message before the try
\* (line 282), which reads implementation.__name__: nothing is invoked
NotInvoked(h) ==
    [heap |-> h, exc |-> "AttributeError", ret |-> NoValue, calls |-> 0]

\* the outcome of a call in which the implementation was invoked k times
Invoked(out, k) ==
    [heap |-> out.heap, exc |-> out.exc, ret |-> out.ret, calls |-> k]

\* variant: the error response takes the push messages of the current
\* context (the proxy) instead of those of the context passed
intent_call_proxy_on_error(cs, cur, h, c, behaviour) ==
    IF ~behaviour.named THEN NotInvoked(h)
    ELSE IF behaviour.raises = None
    THEN Invoked(log_return_value(cs, cur, h, behaviour.result), 1)
    ELSE IF behaviour.raises \in HttpExceptions
    THEN LET h1 == Append(h, ResponseInit(Gettext("GENERIC_HTTP_ERROR_RESPONSE"),
                                          RESPONSE_TYPE_TELL))
         IN Invoked(append_push_messages_proxy(cs, cur, h1, Len(h1)), 1)
    ELSE [heap |-> h, exc |-> behaviour.raises, ret |-> NoValue, calls |-> 1]

\* variant: after an exception of another type the implementation is invoked
\* a second time, and then answers with a string
intent_call_retrying(cs, cur, h, c, behaviour) ==
    IF ~behaviour.named THEN NotInvoked(h)
    ELSE IF behaviour.raises = None
    THEN Invoked(log_return_value(cs, cur, h, behaviour.result), 1)
    ELSE IF behaviour.raises \in HttpExceptions
    THEN LET h1 == Append(h, ResponseInit(Gettext("GENERIC_HTTP_ERROR_RESPONSE"),
                                          RESPONSE_TYPE_TELL))
         IN Invoked(append_push_messages(cs[c].push_messages, h1, Len(h1)), 1)
    ELSE Invoked(log_return_value(cs, cur, h, [kind |-> "str", text |-> "hello"]), 2)

\* the name of the implementation is read for the debug message (line 282);
\* then the implementation is invoked once (line 284); what it returns goes
\* to _log_return_value, a known HTTP exception is answered with the error
\* text and the push messages of the context passed, anything else is
\* re-raised
intent_call(cs, cur, h, c, behaviour) ==
    IF ~behaviour.named THEN NotInvoked(h)
    ELSE IF behaviour.raises = None
    THEN Invoked(log_return_value(cs, cur, h, behaviour.result), 1)
    ELSE IF behaviour.raises \in HttpExceptions
    THEN LET h1 == Append(h, ResponseInit(Gettext("GENERIC_HTTP_ERROR_RESPONSE"),
                                          RESPONSE_TYPE_TELL))
         IN Invoked(append_push_messages(cs[c].push_messages, h1, Len(h1)), 1)
    ELSE [heap |-> h, exc |-> behaviour.raises, ret |-> NoValue, calls |-> 1]

(***************************************************************************)
(* State machine of the intent call pipeline                               *)
(***************************************************************************)
NoCall == [kind |-> "none"]

Constructed(cs) == {c \in CtxIds : cs[c].alive}

PushCount(pm) == Len(Messages(pm))

\* messages queued on all Context objects together (what MaxPush bounds)
RECURSIVE SumPush(_, _)
SumPush(cs, ids) ==
    IF ids = {} THEN 0
    ELSE LET c == CHOOSE x \in ids : TRUE
         IN PushCount(cs[c].push_messages) + SumPush(cs, ids \ {c})
TotalPushCount(cs) == SumPush(cs, CtxIds)

IntentInit ==
    /\ ctxs = [c \in CtxIds |-> [alive |-> FALSE, push_messages |-> <<>>]]
    /\ current = NoCtx
    /\ last = NoCall

\* Context.__init__: a new Context object, made the current one
NewContext(c) ==
    /\ ~ctxs[c].alive
    /\ ctxs' = [ctxs EXCEPT ![c] = ContextInit]
    /\ current' = c
    /\ last' = NoCall
    /\ UNCHANGED <<svars, rvars, cvars, pvars, tvars, lvars>>

\* LocalContext.set_current(ctx)
SetCurrent(c) ==
    /\ c \in Constructed(ctxs) \cup {NoCtx}
    /\ current' = c
    /\ ctxs' = ctxs
    /\ last' = NoCall
    /\ UNCHANGED <<svars, rvars, cvars, pvars, tvars, lvars>>

\* context.push_messages[name].append(payload), done by a handler
PushMessage(c, name, payload) ==
    /\ c \in Constructed(ctxs)
    /\ TotalPushCount(ctxs) < MaxPush
    /\ ctxs' = [ctxs EXCEPT ![c].push_messages = PushAppend(@, name, payload)]
    /\ current' = current
    /\ last' = NoCall
    /\ UNCHANGED <<svars, rvars, cvars, pvars, tvars, lvars>>

\* context.push_messages[name] read without append: the defaultdict adds the key
TouchTarget(c, name) ==
    /\ c \in Constructed(ctxs)
    /\ ~HasName(ctxs[c].push_messages, name)
    /\ ctxs' = [ctxs EXCEPT ![c].push_messages = Touch(@, name)]
    /\ current' = current
    /\ last' = NoCall
    /\ UNCHANGED <<svars, rvars, cvars, pvars, tvars, lvars>>

\* context.push_messages = defaultdict(list), through
\* LocalContext.__setattr__: set on the current Context of the thread;
\* without one the AttributeError is logged and nothing is set
proxy_set_push_messages(cs, cur, value) ==
    IF cur = NoCtx THEN cs ELSE [cs EXCEPT ![cur].push_messages = value]

ProxySetPushMessages ==
    /\ ctxs' = proxy_set_push_messages(ctxs, current, <<>>)
    /\ current' = current
    /\ last' = NoCall
    /\ UNCHANGED <<svars, rvars, cvars, pvars, tvars, lvars>>

\* what an implementation may do when invoked
Raising ==
    {[named |-> TRUE, raises |-> e] : e \in HttpExceptions \cup OtherExceptions}
ReturningValue ==
    {[named |-> TRUE, raises |-> None, result |-> r] :
        r \in {[kind |-> "str", text |-> t] : t \in Texts}
              \cup {[kind |-> "ErrorResponse", code |-> k] : k \in {2, 999}}
              \cup {[kind |-> "other"]}}

\* implementations without a __name__ (a functools.partial, an object with
\* __call__): one that would raise a known HTTP exception, one that would
\* raise another exception, one that would return a string
Unnamed ==
    {[named |-> FALSE, raises |-> "HTTPError"],
     [named |-> FALSE, raises |-> "KeyError"],
     [named |-> FALSE, raises |-> None, result |-> [kind |-> "str", text |-> "hello"]]}

\* the Response an implementation without a __name__ would return
UnnamedResponses ==
    {[text |-> "hello", type_ |-> RESPONSE_TYPE_ASK, push_notification |-> Unset]}

ReturningResponse(named) ==
    [named |-> named, raises |-> None, result |-> [kind |-> "Response", id |-> 1]]

\* the Response objects a handler may hand over: any text and type, with or
\* without a push notification already set on it
PresetNotifications ==
    {Unset, Some([targetName |-> "dev_a", messagePayload |-> "p2"])}
HandlerResponses ==
    {[text |-> t, type_ |-> ty, push_notification |-> pn] :
        t \in Texts, ty \in ResponseTypes, pn \in PresetNotifications}

(***************************************************************************)
(* The observation of a call: the context passed, the current context,     *)
(* what the handler did, the Response objects before (pre) and after       *)
(* (post) the call, by identity, what the call raised (exc) or returned    *)
(* (ret), and how many times it invoked the implementation (calls).  An    *)
(* object of post that is not in pre was built by the call itself.         *)
(***************************************************************************)
Observe(c, behaviour, h0, out) ==
    [kind |-> "call", ctx |-> c, behaviour |-> behaviour,
     pre |-> h0, post |-> out.heap, exc |-> out.exc, ret |-> out.ret,
     calls |-> out.calls]

\* Intent.__call__(c) with an implementation that raises, or returns a
\* string, an ErrorResponse or something else
IntentCall(c, behaviour) ==
    /\ c \in Constructed(ctxs)
    /\ last' = Observe(c, behaviour, <<>>,
                       intent_call(ctxs, current, <<>>, c, behaviour))
    /\ UNCHANGED <<ctxs, current>>
    /\ UNCHANGED <<svars, rvars, cvars, pvars, tvars, lvars>>

\* Intent.__call__(c) with an implementation that returns the Response
\* object resp
IntentCallResponse(c, resp, named) ==
    /\ c \in Constructed(ctxs)
    /\ last' = Observe(c, ReturningResponse(named), <<resp>>,
                       intent_call(ctxs, current, <<resp>>, c,
                                   ReturningResponse(named)))
    /\ UNCHANGED <<ctxs, current>>
    /\ UNCHANGED <<svars, rvars, cvars, pvars, tvars, lvars>>

IntentNext ==
    \/ \E c \in CtxIds : NewContext(c)
    \/ \E c \in CtxIds \cup {NoCtx} : SetCurrent(c)
    \/ \E c \in CtxIds, n \in TargetNames, p \in Payloads : PushMessage(c, n, p)
    \/ \E c \in CtxIds, n \in TargetNames : TouchTarget(c, n)
    \/ ProxySetPushMessages
    \/ \E c \in CtxIds, b \in Raising \cup ReturningValue \cup Unnamed :
          IntentCall(c, b)
    \/ \E c \in CtxIds, r \in HandlerResponses : IntentCallResponse(c, r, TRUE)
    \/ \E c \in CtxIds, r \in UnnamedResponses : IntentCallResponse(c, r, FALSE)

(***************************************************************************)
(* The intent registry of Skill (skill_sdk/skill.py).                      *)
(*                                                                         *)
(* Skill.__intents is one dict object of the class; every instance's       *)
(* `intents` is a read-only proxy of a dict object.  Handler objects are   *)
(* compared by identity (`is`): each has an id.  Ids 1 and 2 are plain     *)
(* functions of the skill, id 3 is a callable that is not a function, and  *)
(* handlers.intent_handler makes a new function object (a wrapper) at      *)
(* every call.                                                             *)
(***************************************************************************)
FALLBACK_INTENT == "FALLBACK_INTENT"

MaxCreated == 2

SkillIds == {1, 2}
IntentNames == {"Intent__One", "Intent__Two", FALLBACK_INTENT}
NoName == "None"       \* intent=None
EmptyName == ""

NoHandler == [id |-> 0, wraps |-> 0, isfunction |-> FALSE]
PlainHandlers ==
    {[id |-> 1, wraps |-> 0, isfunction |-> TRUE],
     [id |-> 2, wraps |-> 0, isfunction |-> TRUE],
     [id |-> 3, wraps |-> 0, isfunction |-> FALSE]}
FirstCreatedId == Cardinality(PlainHandlers) + 1

\* handlers.intent_handler(handler): the n-th wrapper made
Decorated(handler, n) ==
    [id |-> FirstCreatedId + n - 1, wraps |-> handler.id, isfunction |-> TRUE]

\* dict.get(key, default)
DictGet(d, key, default) == IF key \in DOMAIN d THEN d[key] ELSE default

\* d[key] = value
DictSet(d, key, value) ==
    [k \in DOMAIN d \cup {key} |-> IF k = key THEN value ELSE d[k]]

EmptyDict == [k \in {} |-> NoHandler]

\* variant: the fallback handler is preferred to the handler of the name
get_intent_fallback_first(d, name) ==
    DictGet(d, FALLBACK_INTENT, DictGet(d, name, NoHandler))

\* Skill.get_intent(name) on the dict d viewed by self.intents
get_intent(d, name) == DictGet(d, name, DictGet(d, FALLBACK_INTENT, NoHandler))

(***************************************************************************)
(* Skill.__register(intent, handler): on the dict objects ds and the       *)
(* wrappers n made so far.                                                 *)
(***************************************************************************)
\* variant: a name that is registered is given the new handler
skill_register_overwriting(ds, n, intent, handler) ==
    IF intent = NoName \/ intent = EmptyName
    THEN [dicts |-> ds, created |-> n, exc |-> "ValueError", ret |-> NoHandler]
    ELSE IF ~handler.isfunction
    THEN [dicts |-> ds, created |-> n, exc |-> "ValueError", ret |-> NoHandler]
    ELSE LET decorated == Decorated(handler, Len(n) + 1)
         IN [dicts |-> [ds EXCEPT ![1] = DictSet(@, intent, decorated)],
             created |-> Append(n, decorated), exc |-> None, ret |-> decorated]

\* variant: the type of the handler is not looked at
skill_register_any_callable(ds, n, intent, handler) ==
    IF intent = NoName \/ intent = EmptyName
    THEN [dicts |-> ds, created |-> n, exc |-> "ValueError", ret |-> NoHandler]
    ELSE IF intent \in DOMAIN ds[1]
    THEN [dicts |-> ds, created |-> n, exc |-> "ValueError", ret |-> NoHandler]
    ELSE LET decorated == Decorated(handler, Len(n) + 1)
         IN [dicts |-> [ds EXCEPT ![1] = DictSet(@, intent, decorated)],
             created |-> Append(n, decorated), exc |-> None, ret |-> decorated]

skill_register(ds, n, intent, handler) ==
    IF intent = NoName \/ intent = EmptyName
    THEN [dicts |-> ds, created |-> n, exc |-> "ValueError", ret |-> NoHandler]
    ELSE IF intent \in DOMAIN ds[1]
    THEN [dicts |-> ds, created |-> n, exc |-> "ValueError", ret |-> NoHandler]
    ELSE IF ~handler.isfunction
    THEN [dicts |-> ds, created |-> n, exc |-> "ValueError", ret |-> NoHandler]
    ELSE LET decorated == Decorated(handler, Len(n) + 1)
         IN [dicts |-> [ds EXCEPT ![1] = DictSet(@, intent, decorated)],
             created |-> Append(n, decorated), exc |-> None, ret |-> decorated]

\* variant: the handler registered for the intent is not looked at
skill_include_unchecked(ds, n, v, intent, handler) ==
    LET registered == \E k \in DOMAIN ds[v] : ds[v][k] = handler
    IN IF intent # NoName /\ intent # EmptyName /\ ~registered
       THEN LET r == skill_register(ds, n, intent, handler)
            IN IF r.exc # None THEN r
               ELSE [r EXCEPT !.dicts[1] = DictSet(@, intent, r.ret),
                              !.ret = NoHandler]
       ELSE [dicts |-> ds, created |-> n, exc |-> None, ret |-> NoHandler]

(***************************************************************************)
(* Skill.include(intent, handler=handler) on an instance whose `intents`   *)
(* views dict v.  The result is the instance itself: ret is not used.      *)
(***************************************************************************)
skill_include(ds, n, v, intent, handler) ==
    IF /\ intent # NoName
       /\ intent \in DOMAIN ds[v]
       /\ handler # ds[v][intent]
    THEN [dicts |-> ds, created |-> n, exc |-> "ValueError", ret |-> NoHandler]
    ELSE LET registered == \E k \in DOMAIN ds[v] : ds[v][k] = handler
         IN IF intent # NoName /\ intent # EmptyName /\ ~registered
            THEN LET r == skill_register(ds, n, intent, handler)
                 IN IF r.exc # None THEN r
                    ELSE [r EXCEPT !.dicts[1] = DictSet(@, intent, r.ret),
                                   !.ret = NoHandler]
            ELSE [dicts |-> ds, created |-> n, exc |-> None, ret |-> NoHandler]

(***************************************************************************)
(* Skill.intent_handler(intent, handler): the first argument is a name,    *)
(* [callable |-> FALSE, name |-> ...], or, when used as a plain decorator,  *)
(* a function, [callable |-> TRUE, handler |-> ...]; handler is NoHandler   *)
(* when it is not given.  With a name the result is the partial of         *)
(* Skill.__register for that name.                                         *)
(***************************************************************************)
Partial(intent) == [partial |-> "__register", intent |-> intent]

skill_intent_handler(ds, n, intent, handler) ==
    IF intent.callable /\ handler = NoHandler
    THEN LET decorated == Decorated(intent.handler, Len(n) + 1)
         IN [dicts |-> ds, created |-> Append(n, decorated), exc |-> None,
             ret |-> decorated]
    ELSE [dicts |-> ds, created |-> n, exc |-> None, ret |-> Partial(intent)]

\* Skill.close(): self.__intents.clear()
skill_close(ds) == [ds EXCEPT ![1] = EmptyDict]

SkillInit ==
    /\ dicts = <<EmptyDict>>
    /\ skills = [i \in SkillIds |-> 0]
    /\ created = <<>>
    /\ sret = [op |-> "none"]

Alive(i) == skills[i] # 0

\* handler objects a caller can pass: its own, and the wrappers made so far
Handlers(n) == PlainHandlers \cup {n[k] : k \in 1..Len(n)}

\* variant: the instance views a dict of its own, a copy of the registry
SkillNew_own_dict(i) ==
    /\ ~Alive(i)
    /\ dicts' = Append(dicts, dicts[1])
    /\ skills' = [skills EXCEPT ![i] = Len(dicts) + 1]
    /\ sret' = [op |-> "new", skill |-> i]
    /\ UNCHANGED created
    /\ UNCHANGED <<ivars, rvars, cvars, pvars, tvars, lvars>>

\* Skill(): self.intents = MappingProxyType(self.__intents)
SkillNew(i) ==
    /\ ~Alive(i)
    /\ skills' = [skills EXCEPT ![i] = 1]
    /\ sret' = [op |-> "new", skill |-> i]
    /\ UNCHANGED <<dicts, created>>
    /\ UNCHANGED <<ivars, rvars, cvars, pvars, tvars, lvars>>

GetIntent(i, name) ==
    /\ Alive(i)
    /\ sret' = [op |-> "get_intent", skill |-> i, name |-> name,
                exc |-> None, ret |-> get_intent(dicts[skills[i]], name)]
    /\ UNCHANGED <<dicts, skills, created>>
    /\ UNCHANGED <<ivars, rvars, cvars, pvars, tvars, lvars>>

Include(i, intent, handler) ==
    /\ Alive(i)
    /\ LET r == skill_include(dicts, created, skills[i], intent, handler)
       IN /\ Len(r.created) <= MaxCreated
          /\ dicts' = r.dicts
          /\ created' = r.created
          /\ sret' = [op |-> "include", skill |-> i, name |-> intent,
                      handler |-> handler, before |-> dicts,
                      exc |-> r.exc, ret |-> r.ret]
    /\ UNCHANGED skills
    /\ UNCHANGED <<ivars, rvars, cvars, pvars, tvars, lvars>>

\* intent_handler(intent)(handler): the partial of Skill.__register applied
Register(intent, handler) ==
    /\ LET r == skill_register(dicts, created, intent, handler)
       IN /\ Len(r.created) <= MaxCreated
          /\ dicts' = r.dicts
          /\ created' = r.created
          /\ sret' = [op |-> "register", skill |-> 0, name |-> intent,
                      handler |-> handler, before |-> dicts,
                      exc |-> r.exc, ret |-> r.ret]
    /\ UNCHANGED skills
    /\ UNCHANGED <<ivars, rvars, cvars, pvars, tvars, lvars>>

\* what intent_handler may be given as its first argument
NameArgs == {[callable |-> FALSE, name |-> x] : x \in IntentNames \cup {NoName, EmptyName}}
FunctionArgs == {[callable |-> TRUE, handler |-> f] : f \in {g \in PlainHandlers : g.isfunction}}

\* intent_handler(intent) or intent_handler(intent, handler), not applied
IntentHandler(intent, handler) ==
    /\ LET r == skill_intent_handler(dicts, created, intent, handler)
       IN /\ Len(r.created) <= MaxCreated
          /\ dicts' = r.dicts
          /\ created' = r.created
          /\ sret' = [op |-> "intent_handler", skill |-> 0, arg |-> intent,
                      handler |-> handler, before |-> dicts,
                      exc |-> r.exc, ret |-> r.ret]
    /\ UNCHANGED skills
    /\ UNCHANGED <<ivars, rvars, cvars, pvars, tvars, lvars>>

Close(i) ==
    /\ Alive(i)
    /\ dicts' = skill_close(dicts)
    /\ sret' = [op |-> "close", skill |-> i]
    /\ UNCHANGED <<skills, created>>
    /\ UNCHANGED <<ivars, rvars, cvars, pvars, tvars, lvars>>

SkillNext ==
    \/ \E i \in SkillIds : SkillNew(i)
    \/ \E i \in SkillIds, n \in IntentNames \cup {"Intent__Three"} : GetIntent(i, n)
    \/ \E i \in SkillIds, n \in IntentNames \cup {NoName, EmptyName} :
          \E h \in Handlers(created) : Include(i, n, h)
    \/ \E n \in IntentNames \cup {NoName, EmptyName} :
          \E h \in Handlers(created) : Register(n, h)
    \/ \E a \in NameArgs \cup FunctionArgs : IntentHandler(a, NoHandler)
    \/ \E a \in FunctionArgs, h \in PlainHandlers : IntentHandler(a, h)
    \/ \E i \in SkillIds : Close(i)

(***************************************************************************)
(* The Reprompt response and its session counters.                         *)
(*                                                                         *)
(* Session attributes are strings; a string is a sequence of characters,   *)
(* so that int() and str() are computed.  A session value carries its      *)
(* Python type: Str(chars) or Num(n).                                      *)
(***************************************************************************)
MaxCount == 11         \* the intent's counter is followed up to this value
MaxEntityCount == 3    \* the counter of an entity is followed up to this value
MaxStrLen == 2         \* length of the counter strings a request may carry
MaxReprompts == 3      \* largest max_reprompts given to a Reprompt

Digits == <<"0", "1", "2", "3", "4", "5", "6", "7", "8", "9">>
DigitChars == {Digits[i] : i \in 1..Len(Digits)}
DigitVal(c) == (CHOOSE i \in 1..Len(Digits) : Digits[i] = c) - 1
Whitespace == {" "}
Chars == {"0", "1", "9", "-", " ", "x"}

Str(chars) == [type |-> "str", chars |-> chars]
Num(n) == [type |-> "int", num |-> n]

\* str(n) of an integer
RECURSIVE NatToStr(_)
NatToStr(n) ==
    IF n < 10 THEN <<Digits[n + 1]>>
    ELSE NatToStr(n \div 10) \o <<Digits[(n % 10) + 1]>>
ToStr(n) == IF n < 0 THEN <<"-">> \o NatToStr(0 - n) ELSE NatToStr(n)

\* str.strip()
RECURSIVE LStrip(_)
LStrip(s) == IF s # <<>> /\ Head(s) \in Whitespace THEN LStrip(Tail(s)) ELSE s
RECURSIVE RStrip(_)
RStrip(s) ==
    IF s # <<>> /\ s[Len(s)] \in Whitespace
    THEN RStrip(SubSeq(s, 1, Len(s) - 1)) ELSE s

RECURSIVE DigitsValue(_)
DigitsValue(s) ==
    IF s = <<>> THEN 0
    ELSE 10 * DigitsValue(SubSeq(s, 1, Len(s) - 1)) + DigitVal(s[Len(s)])

\* int(s) of a string: surrounding whitespace, an optional sign, digits;
\* anything else is a ValueError (ok = FALSE)
IntParse(s) ==
    LET t == RStrip(LStrip(s))
        signed == t # <<>> /\ Head(t) \in {"-", "+"}
        body == IF signed THEN Tail(t) ELSE t
        ok == body # <<>> /\ \A i \in 1..Len(body) : body[i] \in DigitChars
    IN IF ~ok THEN [ok |-> FALSE, val |-> 0]
       ELSE [ok |-> TRUE,
             val |-> IF signed /\ Head(t) = "-" THEN 0 - DigitsValue(body)
                     ELSE DigitsValue(body)]

NoEntity == "None"     \* entity=None
Entities == {"Time", "Date"}
INTENT == "TELEKOM_Clock_GetTime"
REPROMPT_TEXT == "abc123"
STOP_TEXT == "321cba"

\* the name of the counter: <intent>_reprompt_count, or
\* <intent>_<entity>_reprompt_count for a reprompt about an entity
CounterName(intent, entity) ==
    IF entity = NoEntity THEN intent \o "_reprompt_count"
    ELSE intent \o "_" \o entity \o "_reprompt_count"

\* del session[key]
DictDel(d, key) == [k \in DOMAIN d \ {key} |-> d[k]]

\* session[key] = value
SessionSet(d, key, value) ==
    [k \in DOMAIN d \cup {key} |-> IF k = key THEN value ELSE d[k]]

\* int(session[name]) + 1, or 1 on KeyError and ValueError
NextCount(sess, name) ==
    IF name \notin DOMAIN sess THEN 1
    ELSE IF sess[name].type = "int" THEN sess[name].num + 1
    ELSE LET p == IntParse(sess[name].chars)
         IN IF p.ok THEN p.val + 1 ELSE 1

\* variant: the counter is stored as the number it is
reprompt_dict_storing_number(sess, intent, rp) ==
    LET name == CounterName(intent, rp.entity)
        reprompt_count == NextCount(sess, name)
    IN IF 0 < rp.max_reprompts /\ rp.max_reprompts <= reprompt_count
       THEN [exc |-> None, text |-> rp.stop_text, type_ |-> RESPONSE_TYPE_TELL,
             session |-> DictDel(sess, name)]
       ELSE [exc |-> None, text |-> rp.text, type_ |-> RESPONSE_TYPE_ASK,
             session |-> SessionSet(sess, name, Num(reprompt_count))]

\* variant: the stop response comes only once max_reprompts is exceeded
reprompt_dict_exceeding(sess, intent, rp) ==
    LET name == CounterName(intent, rp.entity)
        reprompt_count == NextCount(sess, name)
    IN IF 0 < rp.max_reprompts /\ rp.max_reprompts < reprompt_count
       THEN [exc |-> None, text |-> rp.stop_text, type_ |-> RESPONSE_TYPE_TELL,
             session |-> DictDel(sess, name)]
       ELSE [exc |-> None, text |-> rp.text, type_ |-> RESPONSE_TYPE_ASK,
             session |-> SessionSet(sess, name, Str(ToStr(reprompt_count)))]

\* variant: the stop response leaves the counter in the session
reprompt_dict_keeping_counter(sess, intent, rp) ==
    LET name == CounterName(intent, rp.entity)
        reprompt_count == NextCount(sess, name)
    IN IF 0 < rp.max_reprompts /\ rp.max_reprompts <= reprompt_count
       THEN [exc |-> None, text |-> rp.stop_text, type_ |-> RESPONSE_TYPE_TELL,
             session |-> SessionSet(sess, name, Str(ToStr(reprompt_count)))]
       ELSE [exc |-> None, text |-> rp.text, type_ |-> RESPONSE_TYPE_ASK,
             session |-> SessionSet(sess, name, Str(ToStr(reprompt_count)))]

\* variant: a reprompt about an entity counts under the intent's name too
reprompt_dict_both_counters(sess, intent, rp) ==
    LET name == CounterName(intent, rp.entity)
        reprompt_count == NextCount(sess, name)
        intent_name == CounterName(intent, NoEntity)
        counted == SessionSet(sess, intent_name,
                              Str(ToStr(NextCount(sess, intent_name))))
    IN IF 0 < rp.max_reprompts /\ rp.max_reprompts <= reprompt_count
       THEN [exc |-> None, text |-> rp.stop_text, type_ |-> RESPONSE_TYPE_TELL,
             session |-> DictDel(counted, name)]
       ELSE [exc |-> None, text |-> rp.text, type_ |-> RESPONSE_TYPE_ASK,
             session |-> SessionSet(counted, name, Str(ToStr(reprompt_count)))]

\* variant: the ValueError of int() on a string that is no number escapes
reprompt_dict_unguarded(sess, intent, rp) ==
    LET name == CounterName(intent, rp.entity)
        reprompt_count == NextCount(sess, name)
    IN IF name \in DOMAIN sess /\ sess[name].type = "str"
          /\ ~IntParse(sess[name].chars).ok
       THEN [exc |-> "ValueError", text |-> rp.text, type_ |-> RESPONSE_TYPE_ASK,
             session |-> sess]
       ELSE IF 0 < rp.max_reprompts /\ rp.max_reprompts <= reprompt_count
       THEN [exc |-> None, text |-> rp.stop_text, type_ |-> RESPONSE_TYPE_TELL,
             session |-> DictDel(sess, name)]
       ELSE [exc |-> None, text |-> rp.text, type_ |-> RESPONSE_TYPE_ASK,
             session |-> SessionSet(sess, name, Str(ToStr(reprompt_count)))]

(***************************************************************************)
(* Reprompt(text, stop_text, max_reprompts, entity).dict(context), where   *)
(* sess is the session of the context.  The session is the one object the  *)
(* handlers change and the response serializes, so the counter is written  *)
(* into it and stays there for whatever follows on the same context.  One  *)
(* counter is concerned: that of the intent, or that of the entity when    *)
(* the reprompt names one.  It is incremented and the response is an ASK   *)
(* with the text, or, with max_reprompts > 0 reached, it is removed and    *)
(* the response is a TELL with stop_text.  The session of the result is    *)
(* what the response carries in session.attributes, and what the next      *)
(* request brings back.                                                    *)
(***************************************************************************)
reprompt_dict(sess, intent, rp) ==
    LET name == CounterName(intent, rp.entity)
        reprompt_count == NextCount(sess, name)
    IN IF 0 < rp.max_reprompts /\ rp.max_reprompts <= reprompt_count
       THEN [exc |-> None, text |-> rp.stop_text, type_ |-> RESPONSE_TYPE_TELL,
             session |-> DictDel(sess, name)]
       ELSE [exc |-> None, text |-> rp.text, type_ |-> RESPONSE_TYPE_ASK,
             session |-> SessionSet(sess, name, Str(ToStr(reprompt_count)))]

\* the strings a request may carry as the counter
RECURSIVE StringsUpTo(_)
StringsUpTo(n) ==
    IF n = 0 THEN {<<>>}
    ELSE LET shorter == StringsUpTo(n - 1)
         IN shorter \cup {Append(s, c) : s \in shorter, c \in Chars}

BaseSession == [k \in {"key-1"} |-> Str(<<"v">>)]

NoRun == [n |-> 0, k |-> 0]

RepromptInit ==
    /\ \/ session = BaseSession
       \/ \E s \in StringsUpTo(MaxStrLen) :
             session = SessionSet(BaseSession, CounterName(INTENT, NoEntity), Str(s))
    /\ rlast = [op |-> "none"]
    /\ run = NoRun

\* the run of consecutive reprompts without entity and with the same
\* max_reprompts n > 0 that began with the counter absent: k is the position
\* of the last reprompt in the run, counted again from 1 after the n-th
RunAfter(sess, rp) ==
    IF rp.entity # NoEntity \/ rp.max_reprompts = 0 THEN NoRun
    ELSE IF run.n = rp.max_reprompts
    THEN [n |-> run.n, k |-> IF run.k >= run.n THEN 1 ELSE run.k + 1]
    ELSE IF CounterName(INTENT, NoEntity) \notin DOMAIN sess
    THEN [n |-> rp.max_reprompts, k |-> 1]
    ELSE NoRun

\* a request of the intent answered with a Reprompt, serialized
RepromptDict(entity, max_reprompts) ==
    LET rp == [text |-> REPROMPT_TEXT, stop_text |-> STOP_TEXT,
               max_reprompts |-> max_reprompts, entity |-> entity]
        out == reprompt_dict(session, INTENT, rp)
    IN /\ NextCount(session, CounterName(INTENT, entity))
            <= (IF entity = NoEntity THEN MaxCount ELSE MaxEntityCount)
       /\ session' = out.session
       /\ rlast' = [op |-> "reprompt", rp |-> rp, before |-> session, out |-> out]
       /\ run' = RunAfter(session, rp)
       /\ UNCHANGED <<ivars, svars, cvars, pvars, tvars, lvars>>

\* a reprompt of the intent, or a reprompt about an entity, with any
\* max_reprompts
RepromptNext ==
    \/ \E n \in 0..MaxReprompts : RepromptDict(NoEntity, n)
    \/ \E e \in Entities, n \in 0..MaxReprompts : RepromptDict(e, n)

(***************************************************************************)
(* Context.__init__(request) (skill_sdk/intents.py): the Context built     *)
(* from the JSON of a request.  A JSON object is a function from its keys; *)
(* {} is the function of no key.                                           *)
(***************************************************************************)
MaxDay == 3            \* days are numbered 0..MaxDay

EmptyObj == <<>>

\* the entry key: value of a JSON object, or no entry when the value is Unset
Field(key, opt) == IF opt = Unset THEN EmptyObj ELSE (key :> opt[1])

Optional(S) == {Unset} \cup {Some(x) : x \in S}

SessionIds == {"12345"}
AttributeBags == {("key-1" :> "value-1" @@ "key-2" :> "value-2")}

\* the 'session' objects of a request: each of id, new, attributes present
\* or not
SessionObjects ==
    {Field("id", i) @@ Field("new", n) @@ Field("attributes", a) :
        i \in Optional(SessionIds), n \in Optional(BOOLEAN),
        a \in Optional(AttributeBags)}

Locales == {"de"}
TokenBags == {("cvi" :> "token-1")}
Configurations == {("a" :> <<"123">>)}
TimezoneNames == {"Europe/Berlin", "Mars"}

\* 'attributesV2' of the request context: name -> list of {value: ...}
AttributeV2Bags ==
    {("timezone" :> <<>>),
     ("timezone" :> <<[value |-> "Europe/Athens"], [value |-> "Europe/Berlin"]>>)}
    \cup {("timezone" :> <<[value |-> z]>>) : z \in TimezoneNames}

\* tokens and configuration as sent by the platform: both, or neither
Settings ==
    {[tokens |-> Unset, configuration |-> Unset]}
    \cup {[tokens |-> Some(t), configuration |-> Some(c)] :
            t \in TokenBags, c \in Configurations}

RequestContexts ==
    {("intent" :> INTENT @@ "locale" :> l) @@ Field("tokens", g.tokens)
        @@ Field("configuration", g.configuration) @@ Field("attributesV2", a) :
        l \in Locales, g \in Settings, a \in Optional(AttributeV2Bags)}

\* request.json
Requests ==
    {("context" :> rc) @@ Field("session", s) :
        rc \in RequestContexts, s \in Optional(SessionObjects)}

\* Session(session_id, new_session, attributes) (skill_sdk/sessions.py)
SessionNew(session_id, new_session, attributes) ==
    [session_id |-> session_id, new_session |-> new_session,
     attributes |-> attributes]

\* {name: [value.get('value') for value in items] for name, items in ...}
ValuesOf(attributesV2) ==
    [name \in DOMAIN attributesV2 |->
        [i \in 1..Len(attributesV2[name]) |-> attributesV2[name][i].value]]

NoContext == [exc |-> "none"]

\* variant: the session is looked into whenever the request carries one
context_init_any_session(json) ==
    LET request_context == json["context"]
        found == "session" \in DOMAIN json
        session_ == json["session"]
        attributesV2 == DictGet(request_context, "attributesV2", EmptyObj)
    IN IF found /\ "new" \notin DOMAIN session_ THEN [exc |-> "KeyError"]
       ELSE IF found /\ "id" \notin DOMAIN session_ THEN [exc |-> "KeyError"]
       ELSE [exc |-> None,
             intent_name |-> DictGet(request_context, "intent", None),
             locale |-> [language |-> DictGet(request_context, "locale", None)],
             tokens |-> DictGet(request_context, "tokens", EmptyObj),
             configuration |-> DictGet(request_context, "configuration", EmptyObj),
             session |->
                IF found
                THEN SessionNew(session_["id"], session_["new"],
                                DictGet(session_, "attributes", EmptyObj))
                ELSE SessionNew(None, TRUE, EmptyObj),
             attributesV2 |-> attributesV2,
             attributes |-> ValuesOf(attributesV2)]

\* variant: the attributes of the request's session are not taken over
context_init_dropping_attributes(json) ==
    LET request_context == json["context"]
        found == "session" \in DOMAIN json /\ DOMAIN json["session"] # {}
        session_ == json["session"]
        attributesV2 == DictGet(request_context, "attributesV2", EmptyObj)
    IN IF found /\ "new" \notin DOMAIN session_ THEN [exc |-> "KeyError"]
       ELSE IF found /\ "id" \notin DOMAIN session_ THEN [exc |-> "KeyError"]
       ELSE [exc |-> None,
             intent_name |-> DictGet(request_context, "intent", None),
             locale |-> [language |-> DictGet(request_context, "locale", None)],
             tokens |-> DictGet(request_context, "tokens", EmptyObj),
             configuration |-> DictGet(request_context, "configuration", EmptyObj),
             session |->
                IF found
                THEN SessionNew(session_["id"], session_["new"], EmptyObj)
                ELSE SessionNew(None, TRUE, EmptyObj),
             attributesV2 |-> attributesV2,
             attributes |-> ValuesOf(attributesV2)]

\* Context.__init__: the fields of the new Context, or the KeyError of
\* session['new'] / session['id'] on a session object without them
context_init(json) ==
    LET request_context == json["context"]
        found == "session" \in DOMAIN json /\ DOMAIN json["session"] # {}
        session_ == json["session"]
        attributesV2 == DictGet(request_context, "attributesV2", EmptyObj)
    IN IF found /\ "new" \notin DOMAIN session_ THEN [exc |-> "KeyError"]
       ELSE IF found /\ "id" \notin DOMAIN session_ THEN [exc |-> "KeyError"]
       ELSE [exc |-> None,
             intent_name |-> DictGet(request_context, "intent", None),
             locale |-> [language |-> DictGet(request_context, "locale", None)],
             tokens |-> DictGet(request_context, "tokens", EmptyObj),
             configuration |-> DictGet(request_context, "configuration", EmptyObj),
             session |->
                IF found
                THEN SessionNew(session_["id"], session_["new"],
                                DictGet(session_, "attributes", EmptyObj))
                ELSE SessionNew(None, TRUE, EmptyObj),
             attributesV2 |-> attributesV2,
             attributes |-> ValuesOf(attributesV2)]

(***************************************************************************)
(* Device time (Context.gettz, now, today).  A date is a day number, an    *)
(* instant is [day, hour] in UTC.  dateutil's tz.gettz(name) gives the     *)
(* named zone, the local zone of the process when name is None or empty,  *)
(* and None when the name is not that of a zone.  The offset of a zone     *)
(* depends on the instant: the days of the model span the start of summer  *)
(* time, which the European zones begin at 01:00 UTC of the same day.      *)
(***************************************************************************)
Days == 0..MaxDay
Hours == {0, 22, 23}
UTC == "UTC"
NoZone == "no zone"        \* tz.gettz() returning None
KnownZones == {UTC, "Europe/Berlin", "Europe/Athens"}
MachineZones == {UTC, "Europe/Berlin"}

\* the instant at which summer time begins
DstStart == [day |-> 3, hour |-> 1]
IsSummer(instant) ==
    \/ instant.day > DstStart.day
    \/ instant.day = DstStart.day /\ instant.hour >= DstStart.hour

\* tzinfo.utcoffset(instant): hours east of UTC at the instant; Berlin is at
\* +1 and Athens at +2 in standard time, and one hour more in summer time
UtcOffset(zone, instant) ==
    CASE zone = "Europe/Berlin" -> IF IsSummer(instant) THEN 2 ELSE 1
      [] zone = "Europe/Athens" -> IF IsSummer(instant) THEN 3 ELSE 2
      [] OTHER -> 0

\* dateutil.tz.gettz(name) in a process whose local zone is local
tz_gettz(name, local) ==
    IF name = None \/ name = "" THEN local
    ELSE IF name \in KnownZones THEN name
    ELSE NoZone

\* Context._get_attribute: the first item of the attribute's list
get_attribute(attributes, attr, default) ==
    LET items == DictGet(attributes, attr, <<>>)
    IN IF items = <<>> THEN default ELSE items[1]

\* Context.gettz: the zone and the number of errors logged
gettz(ctx, local) ==
    LET _tz == get_attribute(ctx.attributes, "timezone", None)
        timezone == tz_gettz(_tz, local)
    IN IF timezone = NoZone
       THEN [tz |-> UTC, errors |-> 1]
       ELSE [tz |-> timezone, errors |-> 0]

\* instant.astimezone(zone)
astimezone(instant, zone) ==
    LET h == instant.hour + UtcOffset(zone, instant)
    IN IF h >= 24 THEN [day |-> instant.day + 1, hour |-> h - 24]
       ELSE IF h < 0 THEN [day |-> instant.day - 1, hour |-> h + 24]
       ELSE [day |-> instant.day, hour |-> h]

\* variant: the current instant is left in UTC
now_utc(ctx, local, utcnow) == utcnow

\* Context.now: the current instant in the device zone
now(ctx, local, utcnow) == astimezone(utcnow, gettz(ctx, local).tz)

\* Context.today: midnight of the current day of the device
today(ctx, local, utcnow) == [day |-> now(ctx, local, utcnow).day, hour |-> 0]

Latest(S) == CHOOSE d \in S : \A e \in S : e <= d

\* Context.closest_previous_date: the latest of the 'date' values before
\* today, or today
closest_previous_date(ctx, local, utcnow) ==
    LET dates == DictGet(ctx.attributes, "date", <<>>)
        day == today(ctx, local, utcnow).day
        earlier == {d \in {dates[i] : i \in 1..Len(dates)} : d < day}
    IN IF earlier = {} THEN now(ctx, local, utcnow).day ELSE Latest(earlier)

\* the lists of dates a handler may find or put under 'date'
DateLists ==
    {<<>>} \cup {<<d>> : d \in Days}
        \cup {p \in {<<d, e>> : d \in Days, e \in Days} : p[2] < p[1]}
        \cup {[i \in 1..(MaxDay + 1) |-> i - 1]}

NoOp == [op |-> "none"]

ContextPartInit ==
    /\ cx = NoContext
    /\ cret = NoOp
    /\ clock = [day |-> 2, hour |-> 0]
    /\ machine_tz \in MachineZones

ContextPartIdle ==
    /\ cx = NoContext
    /\ cret = NoOp
    /\ clock = [day |-> 2, hour |-> 0]
    /\ machine_tz = UTC

\* a request arrives and its Context is constructed; on success the new
\* Context becomes the current one of the thread
ContextNew(json) ==
    LET out == context_init(json)
    IN /\ cx' = IF out.exc = None THEN out ELSE NoContext
       /\ cret' = [op |-> "init", request |-> json, out |-> out]
       /\ IF out.exc = None
          THEN /\ ctxs' = [ctxs EXCEPT ![1] = ContextInit]
               /\ current' = 1
          ELSE UNCHANGED <<ctxs, current>>
       /\ UNCHANGED <<last, clock, machine_tz, svars, rvars, pvars, tvars, lvars>>

\* context.attributes['date'] = dates
SetDates(dates) ==
    /\ cx.exc = None
    /\ cx' = [cx EXCEPT !.attributes = DictSet(@, "date", dates)]
    /\ cret' = NoOp
    /\ UNCHANGED <<ivars, clock, machine_tz, svars, rvars, pvars, tvars, lvars>>

\* context.attributes = attributes, through LocalContext.__setattr__: the
\* Context of the request is the current one of the thread
AssignedAttributes == {("timezone" :> <<"Mars">>)}
SetAttributes(attributes) ==
    /\ cx.exc = None
    /\ current # NoCtx
    /\ cx' = [cx EXCEPT !.attributes = attributes]
    /\ cret' = NoOp
    /\ UNCHANGED <<ivars, clock, machine_tz, svars, rvars, pvars, tvars, lvars>>

Gettz ==
    /\ cx.exc = None
    /\ cret' = [op |-> "gettz", out |-> gettz(cx, machine_tz)]
    /\ UNCHANGED <<cx, ivars, clock, machine_tz, svars, rvars, pvars, tvars, lvars>>

Today ==
    /\ cx.exc = None
    /\ cret' = [op |-> "today", out |-> today(cx, machine_tz, clock)]
    /\ UNCHANGED <<cx, ivars, clock, machine_tz, svars, rvars, pvars, tvars, lvars>>

ClosestPreviousDate ==
    /\ cx.exc = None
    /\ cret' = [op |-> "closest_previous_date",
                out |-> closest_previous_date(cx, machine_tz, clock)]
    /\ UNCHANGED <<cx, ivars, clock, machine_tz, svars, rvars, pvars, tvars, lvars>>

\* time passes
Tick ==
    /\ \/ /\ \E h \in Hours : h > clock.hour
          /\ clock' = [clock EXCEPT
                !.hour = CHOOSE h \in Hours :
                            h > clock.hour /\ \A g \in Hours : g > clock.hour => h <= g]
       \/ /\ \A h \in Hours : h <= clock.hour
          /\ clock.day < MaxDay
          /\ clock' = [day |-> clock.day + 1,
                       hour |-> CHOOSE h \in Hours : \A g \in Hours : h <= g]
    /\ cret' = NoOp
    /\ UNCHANGED <<cx, ivars, machine_tz, svars, rvars, pvars, tvars, lvars>>

ContextNext ==
    \/ \E json \in Requests : ContextNew(json)
    \/ \E dates \in DateLists : SetDates(dates)
    \/ \E attributes \in AssignedAttributes : SetAttributes(attributes)
    \/ Gettz
    \/ Today
    \/ ClosestPreviousDate
    \/ Tick

(***************************************************************************)
(* Response and ErrorResponse (skill_sdk/responses.py, known here through  *)
(* tests/response_test.py): construction, the helpers tell / ask /         *)
(* ask_freetext, serialization with dict(context) and as_response().       *)
(***************************************************************************)
BadTypes == {"TEL"}
Cards == {[title_text |-> "cardtitle", text |-> "cardtext"]}
ResultData == {EmptyObj, ("code" :> 22)}
PushNotifications == {EmptyObj, ("device" :> <<[payload |-> 1], [payload |-> 2]>>)}
ErrorCodes == {2, 999, 123, 500}

NoResponse == [kind |-> "none"]

\* Result(data): the structured result of a response; no data when None
Result(data) == [data |-> IF data = Unset THEN EmptyObj ELSE data[1], local |-> TRUE]

\* variant: any type is taken
response_init_unchecked(text, type_, card, result) ==
    [exc |-> None,
     response |-> [kind |-> "Response", text |-> text,
                   type_ |-> IF type_ = Unset THEN RESPONSE_TYPE_TELL ELSE type_[1],
                   card |-> card, push_notification |-> Unset,
                   result |-> Result(result)]]

\* Response(text, type_, card, result): ValueError for a type that is not one
\* of TELL, ASK, ASK_FREETEXT; the type is TELL when not given
response_init(text, type_, card, result) ==
    LET ty == IF type_ = Unset THEN RESPONSE_TYPE_TELL ELSE type_[1]
    IN IF ty \notin ResponseTypes THEN [exc |-> "ValueError", response |-> NoResponse]
       ELSE [exc |-> None,
             response |-> [kind |-> "Response", text |-> text, type_ |-> ty,
                           card |-> card, push_notification |-> Unset,
                           result |-> Result(result)]]

tell(text) == response_init(text, Some(RESPONSE_TYPE_TELL), Unset, Unset)
ask(text) == response_init(text, Some(RESPONSE_TYPE_ASK), Unset, Unset)
ask_freetext(text) == response_init(text, Some(RESPONSE_TYPE_ASK_FREETEXT), Unset, Unset)

\* Card.dict()
card_dict(card) ==
    [type |-> "GENERIC_DEFAULT", version |-> 1,
     data |-> ("titleText" :> card.title_text @@ "text" :> card.text)]

\* the entry key: value when cond holds, no entry otherwise
Entry(cond, key, value) == IF cond THEN (key :> value) ELSE EmptyObj

\* variant: the session entry is written whatever the session holds
response_dict_always_session(r, ctx) ==
    ("type" :> r.type_ @@ "text" :> r.text)
        @@ Entry(r.card # Unset, "card", card_dict(r.card[1]))
        @@ Entry(r.push_notification # Unset /\ r.push_notification # Some(EmptyObj),
                 "pushNotification", r.push_notification[1])
        @@ Entry(DOMAIN r.result.data # {}, "result", r.result)
        @@ Entry(TRUE, "session", [attributes |-> ctx.session.attributes])

\* variant: the optional entries are written whenever the field is not None
response_dict_not_none(r, ctx) ==
    ("type" :> r.type_ @@ "text" :> r.text)
        @@ Entry(r.card # Unset, "card", card_dict(r.card[1]))
        @@ Entry(r.push_notification # Unset,
                 "pushNotification", r.push_notification[1])
        @@ Entry(TRUE, "result", r.result)
        @@ Entry(DOMAIN ctx.session.attributes # {}, "session",
                 [attributes |-> ctx.session.attributes])

\* Response.dict(context): type and text, the optional entries that are set,
\* and the session of the context when it holds attributes
response_dict(r, ctx) ==
    ("type" :> r.type_ @@ "text" :> r.text)
        @@ Entry(r.card # Unset, "card", card_dict(r.card[1]))
        @@ Entry(r.push_notification # Unset /\ r.push_notification # Some(EmptyObj),
                 "pushNotification", r.push_notification[1])
        @@ Entry(DOMAIN r.result.data # {}, "result", r.result)
        @@ Entry(DOMAIN ctx.session.attributes # {}, "session",
                 [attributes |-> ctx.session.attributes])

\* Response.as_response(context): the HTTP response of a success
response_as_response(r, ctx) == [status |-> 200, body |-> response_dict(r, ctx)]

\* ErrorResponse(code, text)
error_response_init(code, text) == [kind |-> "ErrorResponse", code |-> code, text |-> text]

\* variant: the code is taken for the status
error_as_response_code_as_status(er) ==
    [status |-> IF er.code = 2 THEN 400 ELSE er.code,
     body |-> [code |-> er.code, text |-> er.text]]

\* ErrorResponse.as_response(): 400 for an invalid token, 500 otherwise
error_as_response(er) ==
    [status |-> IF er.code = 2 THEN 400 ELSE 500,
     body |-> [code |-> er.code, text |-> er.text]]

SessionKeys == {"key-1", "key-3"}
SessionValues == {"value-9"}

ResponsePartIdle ==
    /\ response = NoResponse
    /\ pret = NoOp

\* a request without tokens, configuration and attributes has been received
\* and its Context constructed
ResponsePartInit ==
    /\ \E json \in Requests :
          /\ DOMAIN json["context"] = {"intent", "locale"}
          /\ context_init(json).exc = None
          /\ cx = context_init(json)
    /\ cret = NoOp
    /\ clock = [day |-> 2, hour |-> 0]
    /\ machine_tz = UTC
    /\ ResponsePartIdle

ResponseNew(text, type_, card, result) ==
    LET out == response_init(text, type_, card, result)
    IN /\ response' = out.response
       /\ pret' = [op |-> "Response", type_ |-> type_, out |-> out]
       /\ UNCHANGED <<ivars, svars, rvars, cvars, tvars, lvars>>

\* tell(text), ask(text), ask_freetext(text)
Helper(name, text) ==
    LET out == CASE name = "tell" -> tell(text)
                 [] name = "ask" -> ask(text)
                 [] OTHER -> ask_freetext(text)
    IN /\ response' = out.response
       /\ pret' = [op |-> name, out |-> out]
       /\ UNCHANGED <<ivars, svars, rvars, cvars, tvars, lvars>>

ErrorResponseNew(code, text) ==
    /\ response' = error_response_init(code, text)
    /\ pret' = NoOp
    /\ UNCHANGED <<ivars, svars, rvars, cvars, tvars, lvars>>

\* response.push_notification = pn
SetPushNotification(pn) ==
    /\ response.kind = "Response"
    /\ response' = [response EXCEPT !.push_notification = Some(pn)]
    /\ pret' = NoOp
    /\ UNCHANGED <<ivars, svars, rvars, cvars, tvars, lvars>>

\* context.session[key] = value, in a handler
SessionSetItem(key, value) ==
    /\ cx' = [cx EXCEPT !.session.attributes = DictSet(@, key, value)]
    /\ pret' = NoOp
    /\ UNCHANGED <<response, ivars, svars, rvars, cret, clock, machine_tz, tvars, lvars>>

\* del context.session[key], in a handler
SessionDelItem(key) ==
    /\ key \in DOMAIN cx.session.attributes
    /\ cx' = [cx EXCEPT !.session.attributes = DictDel(@, key)]
    /\ pret' = NoOp
    /\ UNCHANGED <<response, ivars, svars, rvars, cret, clock, machine_tz, tvars, lvars>>

ResponseDict ==
    /\ response.kind = "Response"
    /\ pret' = [op |-> "dict", out |-> response_dict(response, cx)]
    /\ UNCHANGED <<response, ivars, svars, rvars, cvars, tvars, lvars>>

AsResponse ==
    /\ response.kind # "none"
    /\ pret' = [op |-> "as_response",
                out |-> IF response.kind = "Response"
                        THEN response_as_response(response, cx)
                        ELSE error_as_response(response)]
    /\ UNCHANGED <<response, ivars, svars, rvars, cvars, tvars, lvars>>

ResponseNext ==
    \/ \E text \in Texts, type_ \in Optional(ResponseTypes \cup BadTypes),
          card \in Optional(Cards), result \in Optional(ResultData) :
          ResponseNew(text, type_, card, result)
    \/ \E name \in {"tell", "ask", "ask_freetext"}, text \in Texts : Helper(name, text)
    \/ \E code \in ErrorCodes, text \in Texts : ErrorResponseNew(code, text)
    \/ \E pn \in PushNotifications : SetPushNotification(pn)
    \/ \E key \in SessionKeys, value \in SessionValues : SessionSetItem(key, value)
    \/ \E key \in SessionKeys \cup {"key-2"} : SessionDelItem(key)
    \/ ResponseDict
    \/ AsResponse

(***************************************************************************)
(* The header codec of the tracing adapter (skill_sdk/tracing.py).  A      *)
(* carrier is a dict, whose items are kept in insertion order as a         *)
(* sequence of <<key, value>>, or an object that is not a dict.  A header  *)
(* name is a string, written as the sequence of its characters so that     *)
(* str.lower() is computed.                                                *)
(***************************************************************************)
MaxHeaders == 3        \* items a program puts into a carrier by itself

UpperCase ==
    <<"A", "B", "C", "D", "E", "F", "G", "H", "I", "J", "K", "L", "M",
      "N", "O", "P", "Q", "R", "S", "T", "U", "V", "W", "X", "Y", "Z">>
LowerCase ==
    <<"a", "b", "c", "d", "e", "f", "g", "h", "i", "j", "k", "l", "m",
      "n", "o", "p", "q", "r", "s", "t", "u", "v", "w", "x", "y", "z">>

\* str.lower(), character by character
LowerChar(c) ==
    IF \E i \in 1..Len(UpperCase) : UpperCase[i] = c
    THEN LowerCase[CHOOSE i \in 1..Len(UpperCase) : UpperCase[i] = c]
    ELSE c
Lower(k) == [i \in 1..Len(k) |-> LowerChar(k[i])]

trace_header == <<"X", "-", "B", "3", "-", "T", "r", "a", "c", "e", "I", "d">>
span_header == <<"X", "-", "B", "3", "-", "S", "p", "a", "n", "I", "d">>
testing_header == <<"X", "-", "T", "e", "s", "t", "i", "n", "g">>

\* header names a program may have put into the carrier: other spellings of
\* the three headers, as HTTP stacks write them, and another header
HeaderNames ==
    {trace_header,
     <<"x", "-", "b", "3", "-", "t", "r", "a", "c", "e", "i", "d">>,
     <<"X", "-", "B", "3", "-", "S", "P", "A", "N", "I", "D">>,
     <<"A", "c", "c", "e", "p", "t">>}
HeaderValues == {"a"}

FORMAT_HTTP_HEADERS == "http_headers"
Formats == {FORMAT_HTTP_HEADERS, "text_map"}

SpanContextNew(trace_id, span_id, testing) ==
    [trace_id |-> trace_id, span_id |-> span_id, testing |-> testing]
SpanContexts ==
    {SpanContextNew(t, s, x) : t \in {"b", None}, s \in {"s"}, x \in {"true", None}}

EmptyCarrier == [isdict |-> TRUE, items |-> <<>>]
NotADict == [isdict |-> FALSE, items |-> <<>>]     \* a list of pairs, a string, ...

\* dict operations on the items, in insertion order
ItemHas(items, key) == \E i \in 1..Len(items) : items[i][1] = key
ItemGet(items, key, default) ==
    IF ItemHas(items, key)
    THEN items[CHOOSE i \in 1..Len(items) : items[i][1] = key][2]
    ELSE default
ItemSet(items, key, value) ==
    IF ItemHas(items, key)
    THEN [i \in 1..Len(items) |-> IF items[i][1] = key THEN <<key, value>> ELSE items[i]]
    ELSE Append(items, <<key, value>>)

\* dict([(k.lower(), k) for k in carrier]): of the keys that are equal in
\* lower case, the last one of the carrier stays
RECURSIVE LowercaseKeys(_)
LowercaseKeys(items) ==
    IF items = <<>> THEN <<>>
    ELSE LET k == items[Len(items)][1]
         IN ItemSet(LowercaseKeys(SubSeq(items, 1, Len(items) - 1)), Lower(k), k)

\* carrier.get(lowercase_keys.get(header.lower())): None is no key of a carrier
HeaderOf(items, header) ==
    LET found == ItemGet(LowercaseKeys(items), Lower(header), None)
    IN IF found = None THEN None ELSE ItemGet(items, found, None)

\* Codec.extract(carrier)
codec_extract(c) ==
    IF ~c.isdict
    THEN [carrier |-> c, exc |-> "InvalidCarrierException", ret |-> NoValue]
    ELSE [carrier |-> c, exc |-> None,
          ret |-> SpanContextNew(HeaderOf(c.items, trace_header),
                                 HeaderOf(c.items, span_header),
                                 HeaderOf(c.items, testing_header))]

\* Codec.inject(span_context, carrier)
codec_inject(span_context, c) ==
    IF ~c.isdict
    THEN [carrier |-> c, exc |-> "InvalidCarrierException", ret |-> NoValue]
    ELSE [carrier |->
            [c EXCEPT !.items =
                ItemSet(ItemSet(ItemSet(@, trace_header, span_context.trace_id),
                                span_header, span_context.span_id),
                        testing_header, span_context.testing)],
          exc |-> None, ret |-> NoValue]

\* Tracer.extract(format, carrier) and Tracer.inject(span_context, format, carrier)
tracer_extract(format, c) ==
    IF format = FORMAT_HTTP_HEADERS THEN codec_extract(c)
    ELSE [carrier |-> c, exc |-> "UnsupportedFormatException", ret |-> NoValue]

tracer_inject(span_context, format, c) ==
    IF format = FORMAT_HTTP_HEADERS THEN codec_inject(span_context, c)
    ELSE [carrier |-> c, exc |-> "UnsupportedFormatException", ret |-> NoValue]

TracingIdle ==
    /\ carrier = EmptyCarrier
    /\ tret = [op |-> "none"]

\* a new carrier: an empty dict, or something that is not a dict
CarrierNew(c) ==
    /\ carrier' = c
    /\ tret' = [op |-> "new"]
    /\ UNCHANGED <<ivars, svars, rvars, cvars, pvars, lvars>>

\* carrier[name] = value, done by the program that owns the carrier
SetHeader(name, value) ==
    /\ carrier.isdict
    /\ Len(carrier.items) < MaxHeaders
    /\ carrier' = [carrier EXCEPT !.items = ItemSet(@, name, value)]
    /\ tret' = [op |-> "set"]
    /\ UNCHANGED <<ivars, svars, rvars, cvars, pvars, lvars>>

Inject(span_context, format) ==
    /\ LET r == tracer_inject(span_context, format, carrier)
       IN /\ carrier' = r.carrier
          /\ tret' = [op |-> "inject", span_context |-> span_context,
                      format |-> format, before |-> carrier, exc |-> r.exc]
    /\ UNCHANGED <<ivars, svars, rvars, cvars, pvars, lvars>>

\* injected: the span context written into this carrier by the operation
\* just before, when there is one
Extract(format) ==
    /\ LET r == tracer_extract(format, carrier)
       IN /\ carrier' = r.carrier
          /\ tret' = [op |-> "extract", format |-> format, before |-> carrier,
                      injected |-> IF tret.op = "inject" /\ tret.exc = None
                                   THEN Some(tret.span_context) ELSE Unset,
                      exc |-> r.exc, ret |-> r.ret]
    /\ UNCHANGED <<ivars, svars, rvars, cvars, pvars, lvars>>

TracingNext ==
    \/ \E c \in {EmptyCarrier, NotADict} : CarrierNew(c)
    \/ \E name \in HeaderNames, value \in HeaderValues : SetHeader(name, value)
    \/ \E sc \in SpanContexts, f \in Formats : Inject(sc, f)
    \/ \E f \in Formats : Extract(f)

(***************************************************************************)
(* The current Context of each thread (LocalContext, skill_sdk/intents.py).*)
(* LocalContext._thread_locals is one threading.local(): its attribute     *)
(* `context` has a value of its own in every thread, and none in a thread  *)
(* that has not set it.  Thread 1 is the thread that imported the module:  *)
(* LocalContext.__init__ has set its `context` to None.                    *)
(***************************************************************************)
MaxContexts == 3       \* Context objects constructed, by all threads together

Threads == {1, 2}
ImportThread == 1
Missing == -1          \* the thread has no attribute `context`

\* Context.intent_name of the n-th Context made, as its request gives it
IntentNameOf(c) == <<"intent of", c>>

\* values a handler may assign through the proxy
AssignedNames == {"set through the proxy"}

\* variant: the current context is kept in one place for all threads
local_set_current_shared(ls, t, c) == [u \in Threads |-> c]

\* LocalContext.set_current(ctx) in thread t
local_set_current(ls, t, c) == [ls EXCEPT ![t] = c]

\* LocalContext.get_current() in thread t
local_get_current(ls, t) ==
    IF ls[t] = Missing THEN [exc |-> "AttributeError", ret |-> NoValue]
    ELSE [exc |-> None, ret |-> ls[t]]

\* context.intent_name in thread t, through LocalContext.__getattr__, with
\* the Context objects objs: an AttributeError (no attribute `context`, or
\* the value None) is logged and None is the result
local_getattr(ls, objs, t) ==
    IF ls[t] = Missing \/ ls[t] = NoCtx THEN [exc |-> None, ret |-> None]
    ELSE [exc |-> None, ret |-> objs[ls[t]].intent_name]

\* context.intent_name = value in thread t, through
\* LocalContext.__setattr__: the attribute is set on the current Context of
\* the thread; an AttributeError (no attribute `context`, or the value
\* None) is logged and nothing is set
local_setattr(ls, objs, t, value) ==
    IF ls[t] = Missing \/ ls[t] = NoCtx THEN objs
    ELSE [objs EXCEPT ![ls[t]].intent_name = value]

\* Context(request) in thread t: the new object is the n-th made
thread_context_init(ls, n, t) == local_set_current(ls, t, n)

ThreadsIdle ==
    /\ locals = [t \in Threads |-> IF t = ImportThread THEN NoCtx ELSE Missing]
    /\ made = <<>>
    /\ lret = [op |-> "none"]

ThreadNewContext(t) ==
    /\ Len(made) < MaxContexts
    /\ made' = Append(made, [by |-> t, intent_name |-> IntentNameOf(Len(made) + 1)])
    /\ locals' = thread_context_init(locals, Len(made) + 1, t)
    /\ lret' = [op |-> "new", thread |-> t, arg |-> Len(made) + 1,
                before |-> locals, objects |-> made]
    /\ UNCHANGED <<ivars, svars, rvars, cvars, pvars, tvars>>

\* set_current(ctx) with a Context made by any thread, or None
ThreadSetCurrent(t, c) ==
    /\ c \in 1..Len(made) \cup {NoCtx}
    /\ locals' = local_set_current(locals, t, c)
    /\ lret' = [op |-> "set_current", thread |-> t, arg |-> c,
                before |-> locals, objects |-> made]
    /\ UNCHANGED made
    /\ UNCHANGED <<ivars, svars, rvars, cvars, pvars, tvars>>

ThreadGetCurrent(t) ==
    /\ lret' = [op |-> "get_current", thread |-> t, before |-> locals,
                objects |-> made, out |-> local_get_current(locals, t)]
    /\ UNCHANGED <<locals, made>>
    /\ UNCHANGED <<ivars, svars, rvars, cvars, pvars, tvars>>

ThreadGetAttr(t) ==
    /\ lret' = [op |-> "getattr", thread |-> t, before |-> locals,
                objects |-> made, out |-> local_getattr(locals, made, t)]
    /\ UNCHANGED <<locals, made>>
    /\ UNCHANGED <<ivars, svars, rvars, cvars, pvars, tvars>>

ThreadSetAttr(t, value) ==
    /\ made' = local_setattr(locals, made, t, value)
    /\ lret' = [op |-> "setattr", thread |-> t, arg |-> value,
                before |-> locals, objects |-> made]
    /\ UNCHANGED locals
    /\ UNCHANGED <<ivars, svars, rvars, cvars, pvars, tvars>>

ThreadsNext ==
    \/ \E t \in Threads : ThreadNewContext(t)
    \/ \E t \in Threads, c \in 0..MaxContexts : ThreadSetCurrent(t, c)
    \/ \E t \in Threads : ThreadGetCurrent(t)
    \/ \E t \in Threads : ThreadGetAttr(t)
    \/ \E t \in Threads, v \in AssignedNames : ThreadSetAttr(t, v)

\* no conversation under way
RepromptIdle ==
    /\ session = BaseSession
    /\ rlast = [op |-> "none"]
    /\ run = NoRun

\* no carrier and no thread at work
OthersIdle == TracingIdle /\ ThreadsIdle

Init ==
    IntentInit /\ SkillInit /\ RepromptIdle /\ ContextPartIdle /\ ResponsePartIdle
    /\ OthersIdle

InitReprompt ==
    IntentInit /\ SkillInit /\ RepromptInit /\ ContextPartIdle /\ ResponsePartIdle
    /\ OthersIdle

InitContext ==
    IntentInit /\ SkillInit /\ RepromptIdle /\ ContextPartInit /\ ResponsePartIdle
    /\ OthersIdle

InitResponse ==
    IntentInit /\ SkillInit /\ RepromptIdle /\ ResponsePartInit /\ OthersIdle

Spec == Init /\ [][IntentNext]_vars

SpecSkill == Init /\ [][SkillNext]_vars

SpecReprompt == InitReprompt /\ [][RepromptNext]_vars

SpecContext == InitContext /\ [][ContextNext]_vars

SpecResponse == InitResponse /\ [][ResponseNext]_vars

SpecTracing == Init /\ [][TracingNext]_vars

SpecThreads == Init /\ [][ThreadsNext]_vars

(***************************************************************************)
(* Properties of the intent call pipeline (checked under Spec)             *)
(***************************************************************************)
Called == last.kind = "call"
\* the implementation was invoked: the call got past the debug message that
\* reads its __name__
HandlerInvoked == Called /\ last.behaviour.named
HandlerReturned == HandlerInvoked /\ last.behaviour.raises = None
HandlerRaisedHttp == HandlerInvoked /\ last.behaviour.raises \in HttpExceptions
ReturnedStr == HandlerReturned /\ last.behaviour.result.kind = "str"
ReturnedResponse == HandlerReturned /\ last.behaviour.result.kind = "Response"

\* the call reached _append_push_messages with the push_messages of a Context
MergeAttempted ==
    \/ HandlerRaisedHttp
    \/ (ReturnedStr \/ ReturnedResponse) /\ current # NoCtx

\* the push_messages _append_push_messages was given, and the response it
\* was given (identity, and the object as it was before the merge)
MergePm ==
    IF HandlerRaisedHttp THEN ctxs[last.ctx].push_messages
    ELSE ctxs[current].push_messages
MergeResponseId == IF ReturnedResponse THEN last.behaviour.result.id ELSE 1
MergeResponseBefore ==
    IF ReturnedResponse THEN last.pre[last.behaviour.result.id]
    ELSE IF ReturnedStr THEN ResponseInit(last.behaviour.result.text, RESPONSE_TYPE_TELL)
    ELSE ResponseInit(Gettext("GENERIC_HTTP_ERROR_RESPONSE"), RESPONSE_TYPE_TELL)

\* the only queued message, as a push notification
OnlyMessage(pm) ==
    [targetName |-> Messages(pm)[1][1], messagePayload |-> Messages(pm)[1][2]]

\* C1: _append_push_messages raises ValueError whenever the push_messages of
\* the context it is given hold more than one queued message in total, over
\* all target names and payloads; nothing is returned in that case.
C1_MoreThanOnePushRaises ==
    (MergeAttempted /\ PushCount(MergePm) > 1)
        => (last.exc = "ValueError" /\ last.ret = NoValue)

\* two messages queued under one target name, and the merge has raised
C1_Witness ==
    /\ MergeAttempted
    /\ Len(MergePm) = 1
    /\ PushCount(MergePm) = 2
    /\ last.exc = "ValueError"

\* C2: with exactly one queued message (T, P) _append_push_messages returns
\* the response it was given, with push_notification {targetName: T,
\* messagePayload: P} and nothing else changed; with none queued it returns
\* the response it was given, unchanged.
C2_OneMessageAttached ==
    MergeAttempted =>
        /\ PushCount(MergePm) = 1 =>
              /\ last.exc = None
              /\ last.ret = RefTo(MergeResponseId)
              /\ last.post[MergeResponseId] =
                    [MergeResponseBefore EXCEPT
                        !.push_notification = Some(OnlyMessage(MergePm))]
        /\ PushCount(MergePm) = 0 =>
              /\ last.exc = None
              /\ last.ret = RefTo(MergeResponseId)
              /\ last.post[MergeResponseId] = MergeResponseBefore

\* a response that already carried another notification got the one queued
\* message, next to a target name with no payload queued
C2_Witness ==
    /\ ReturnedResponse
    /\ current # NoCtx
    /\ PushCount(MergePm) = 1
    /\ Len(MergePm) = 2
    /\ MergeResponseBefore.push_notification # Unset
    /\ MergeResponseBefore.push_notification # Some(OnlyMessage(MergePm))
    /\ last.post[1].push_notification = Some(OnlyMessage(MergePm))

\* what the merge leaves in push_notification when it succeeds
Merged(pm, before) ==
    IF PushCount(pm) = 0 THEN before ELSE Some(OnlyMessage(pm))

\* C3: when the handler returns a string s, the call yields a new Response
\* with text s and type TELL; when it returns a Response, the call yields that
\* very object, text and type as they were; in both the push message queued
\* on the current context is merged in.  The call yields the response
\* whenever there is a current context with at most one queued message.
C3_StringOrResponseNormalized ==
    (ReturnedStr \/ ReturnedResponse) =>
        /\ (current # NoCtx /\ PushCount(ctxs[current].push_messages) <= 1)
              => last.exc = None
        /\ last.exc = None =>
              /\ current # NoCtx
              /\ last.ret.kind = "Response"
              /\ last.ret.id \in DOMAIN last.post
              /\ ReturnedStr =>
                    /\ last.ret.id \notin DOMAIN last.pre
                    /\ last.post[last.ret.id] =
                          [text |-> last.behaviour.result.text,
                           type_ |-> RESPONSE_TYPE_TELL,
                           push_notification |->
                              Merged(ctxs[current].push_messages, Unset)]
              /\ ReturnedResponse =>
                    /\ last.ret.id = last.behaviour.result.id
                    /\ last.post[last.ret.id] =
                          [last.pre[last.ret.id] EXCEPT
                              !.push_notification =
                                 Merged(ctxs[current].push_messages, @)]

\* the handler returned an ASK Response and the call returned that object
\* with the queued message merged in
C3_Witness ==
    /\ ReturnedResponse
    /\ last.exc = None
    /\ last.pre[1].type_ = RESPONSE_TYPE_ASK
    /\ last.ret = RefTo(1)
    /\ last.post[1].type_ = RESPONSE_TYPE_ASK
    /\ last.post[1].push_notification # last.pre[1].push_notification

\* C4: when the handler raises RequestException, HTTPError or
\* CircuitBreakerError the call does not propagate it: it returns a new TELL
\* Response with the translated GENERIC_HTTP_ERROR_RESPONSE text and the push
\* message queued on the context passed merged in (more than one queued
\* message is the ValueError of C1).
C4_HttpErrorBecomesTell ==
    HandlerRaisedHttp =>
        /\ last.exc \notin HttpExceptions
        /\ IF PushCount(ctxs[last.ctx].push_messages) <= 1
           THEN /\ last.exc = None
                /\ last.ret.kind = "Response"
                /\ last.ret.id \in DOMAIN last.post
                /\ last.post[last.ret.id] =
                      [text |-> Gettext("GENERIC_HTTP_ERROR_RESPONSE"),
                       type_ |-> RESPONSE_TYPE_TELL,
                       push_notification |->
                          Merged(ctxs[last.ctx].push_messages, Unset)]
           ELSE last.exc = "ValueError"

\* the handler raised CircuitBreakerError while another context, with
\* nothing queued, was the current one; the error response carries the
\* message queued on the context passed
C4_Witness ==
    /\ HandlerRaisedHttp
    /\ last.behaviour.raises = "CircuitBreakerError"
    /\ current # NoCtx
    /\ current # last.ctx
    /\ PushCount(ctxs[current].push_messages) = 0
    /\ PushCount(ctxs[last.ctx].push_messages) = 1
    /\ last.exc = None
    /\ last.post[last.ret.id].push_notification # Unset

ReturnedError == HandlerReturned /\ last.behaviour.result.kind = "ErrorResponse"
ReturnedOther ==
    HandlerReturned
    /\ last.behaviour.result.kind \notin {"Response", "ErrorResponse", "str"}

\* C21: when the handler returns an ErrorResponse, the call returns that
\* ErrorResponse as it is: nothing is raised, no Response object is made or
\* changed and no push notification is put on it, whether no, one or several
\* push messages are queued on the context passed or on the current one, and
\* whether or not there is a current context.
C21_ErrorResponseUntouched ==
    ReturnedError =>
        /\ last.exc = None
        /\ last.ret = last.behaviour.result
        /\ last.post = last.pre

\* an ErrorResponse came back while two messages were queued on the context
\* passed, which is the current one
C21_Witness ==
    /\ ReturnedError
    /\ current = last.ctx
    /\ PushCount(ctxs[last.ctx].push_messages) = 2
    /\ last.exc = None
    /\ last.ret = last.behaviour.result

\* C22: when the handler returns something that is not a Response, an
\* ErrorResponse or a string, the call raises ValueError, returns nothing and
\* makes no Response, whatever is queued on the contexts.
C22_OtherResultRaises ==
    ReturnedOther =>
        /\ last.exc = "ValueError"
        /\ last.ret = NoValue
        /\ last.post = last.pre

\* the handler returned something else while the current context had nothing queued
C22_Witness ==
    /\ ReturnedOther
    /\ current # NoCtx
    /\ PushCount(ctxs[current].push_messages) = 0
    /\ last.exc = "ValueError"

HandlerRaisedOther ==
    HandlerInvoked /\ last.behaviour.raises \notin HttpExceptions \cup {None}

\* C23: an exception of the handler that is not RequestException, HTTPError
\* or CircuitBreakerError leaves the call as the very exception raised:
\* nothing is returned, no Response is made or changed, and the
\* implementation has been invoked once.
C23_OtherExceptionReraised ==
    HandlerRaisedOther =>
        /\ last.exc = last.behaviour.raises
        /\ last.ret = NoValue
        /\ last.post = last.pre
        /\ last.calls = 1

\* the handler raised KeyError with one message queued on the context
\* passed, the current one: the KeyError came out of the call
C23_Witness ==
    /\ HandlerRaisedOther
    /\ current = last.ctx
    /\ PushCount(ctxs[last.ctx].push_messages) = 1
    /\ last.exc = "KeyError"
    /\ last.calls = 1

\* C28: when _append_push_messages raises ValueError because more than one
\* message is queued, the response object it was given is as it was before
\* the call, its push_notification included.
C28_FailedMergeLeavesResponse ==
    (MergeAttempted /\ PushCount(MergePm) > 1 /\ last.exc = "ValueError") =>
        last.post[MergeResponseId] = MergeResponseBefore

\* C29: the push messages merged into the result of a call are those
\* queued on the context passed to it, when the handler returns a string or
\* a Response as when it raises a known HTTP exception, whichever context is
\* the current one: with at most one message queued on the context passed
\* the call yields the response with that message (or what the response
\* carried, when none is queued), with more the merge raises ValueError.
C29_MergesMessagesOfContextPassed ==
    (HandlerRaisedHttp \/ ReturnedStr \/ ReturnedResponse) =>
        IF PushCount(ctxs[last.ctx].push_messages) <= 1
        THEN /\ last.exc = None
             /\ last.ret = RefTo(MergeResponseId)
             /\ last.post[MergeResponseId].push_notification =
                   Merged(ctxs[last.ctx].push_messages,
                          MergeResponseBefore.push_notification)
        ELSE last.exc = "ValueError"

(***************************************************************************)
(* Properties of the intent registry (checked under SpecSkill)             *)
(***************************************************************************)
\* the dict the instance of the last operation views
ViewOfLast == dicts[skills[sret.skill]]

\* C5: get_intent(name) returns the handler registered under name when there
\* is one, whatever the fallback; otherwise the handler registered under
\* FALLBACK_INTENT when there is one; otherwise None.
C5_GetIntentResolution ==
    sret.op = "get_intent" =>
        /\ sret.exc = None
        /\ sret.name \in DOMAIN ViewOfLast => sret.ret = ViewOfLast[sret.name]
        /\ (sret.name \notin DOMAIN ViewOfLast /\ FALLBACK_INTENT \in DOMAIN ViewOfLast)
              => sret.ret = ViewOfLast[FALLBACK_INTENT]
        /\ (sret.name \notin DOMAIN ViewOfLast /\ FALLBACK_INTENT \notin DOMAIN ViewOfLast)
              => sret.ret = NoHandler

\* a name and the fallback are registered with different handlers, and
\* get_intent(name) returned the handler of the name
C5_Witness ==
    /\ sret.op = "get_intent"
    /\ sret.name # FALLBACK_INTENT
    /\ sret.name \in DOMAIN ViewOfLast
    /\ FALLBACK_INTENT \in DOMAIN ViewOfLast
    /\ ViewOfLast[sret.name] # ViewOfLast[FALLBACK_INTENT]
    /\ sret.ret = ViewOfLast[sret.name]

\* the mapping the `intents` view of instance i shows
IntentsOf(i) == dicts[skills[i]]

\* C19: there is one registry for the process: whatever registrations
\* (intent_handler, include on any instance) and close() calls have been
\* made, every Skill instance's `intents` shows the same mapping, instances
\* created before a registration included; close() on any instance leaves
\* the registry empty for all of them.
C19_OneRegistry ==
    /\ \A i \in SkillIds, j \in SkillIds :
          (Alive(i) /\ Alive(j)) => IntentsOf(i) = IntentsOf(j)
    /\ (sret.op = "include" /\ sret.exc = None /\ sret.name \in IntentNames
           /\ \A k \in DOMAIN sret.before[1] : sret.before[1][k] # sret.handler) =>
          \A i \in SkillIds : Alive(i) => sret.name \in DOMAIN IntentsOf(i)
    /\ (sret.op = "register" /\ sret.exc = None) =>
          \A i \in SkillIds : Alive(i) => IntentsOf(i)[sret.name] = sret.ret
    /\ sret.op = "close" =>
          \A i \in SkillIds : Alive(i) => DOMAIN IntentsOf(i) = {}

\* two instances exist, a handler registered through the static decorator
\* after their creation shows in both
C19_Witness ==
    /\ \A i \in SkillIds : Alive(i)
    /\ sret.op = "register"
    /\ sret.exc = None
    /\ \A i \in SkillIds : sret.before[skills[i]] = EmptyDict
    /\ \A i \in SkillIds : DOMAIN IntentsOf(i) = {sret.name}

\* C20: include(intent, handler=h) raises ValueError and leaves the registry
\* unchanged when the intent is registered and the handler registered for it
\* is not the object h; with the very object that is registered for it the
\* call is accepted and changes nothing.
C20_IncludeExistingIntent ==
    (/\ sret.op = "include"
     /\ sret.name # NoName
     /\ sret.name \in DOMAIN sret.before[skills[sret.skill]]) =>
        /\ dicts = sret.before
        /\ IF sret.handler # sret.before[skills[sret.skill]][sret.name]
           THEN sret.exc = "ValueError"
           ELSE sret.exc = None

\* the intent is included with the handler registered for another intent
C20_Witness ==
    /\ sret.op = "include"
    /\ sret.name \in DOMAIN sret.before[1]
    /\ sret.handler # sret.before[1][sret.name]
    /\ \E k \in DOMAIN sret.before[1] : sret.before[1][k] = sret.handler
    /\ sret.exc = "ValueError"
    /\ dicts = sret.before

\* the registry: the dict that is Skill.__intents
Registry == dicts[1]

\* C24: a step that is not close() keeps every registered name in the
\* registry, with the handler it had: include on any instance and the
\* static registration add names, they never remove one nor give one
\* another handler.  After close() the names are free again.
C24_RegisteredNameKeepsHandler ==
    [][\A k \in DOMAIN Registry :
          (k \notin DOMAIN Registry' \/ Registry'[k] # Registry[k])
              => sret'.op = "close"]_vars

\* two names are registered; the static registration of another function
\* under one of them has been refused and both names map as before
C24_Witness ==
    /\ sret.op = "register"
    /\ Cardinality(DOMAIN sret.before[1]) = 2
    /\ sret.name \in DOMAIN sret.before[1]
    /\ sret.handler.isfunction
    /\ sret.handler.id # sret.before[1][sret.name].wraps
    /\ sret.exc = "ValueError"
    /\ Registry = sret.before[1]

\* C25: intent_handler(name)(handler) raises ValueError and leaves the
\* registry as it was when the name is None or empty, when the name is
\* registered, or when the handler is not a function; otherwise it adds the
\* name, mapped to a new wrapper of the handler, leaves the other names as
\* they were, and returns that wrapper.  intent_handler(name), not yet
\* applied, raises nothing and leaves the registry as it was.
C25_DecoratorRegisters ==
    /\ sret.op = "register" =>
          IF \/ sret.name \in {NoName, EmptyName}
             \/ sret.name \in DOMAIN sret.before[1]
             \/ ~sret.handler.isfunction
          THEN sret.exc = "ValueError" /\ dicts = sret.before
          ELSE /\ sret.exc = None
               /\ DOMAIN Registry = DOMAIN sret.before[1] \cup {sret.name}
               /\ \A k \in DOMAIN sret.before[1] : Registry[k] = sret.before[1][k]
               /\ Registry[sret.name] = sret.ret
               /\ sret.ret.wraps = sret.handler.id
               /\ sret.ret.isfunction
               /\ \A k \in DOMAIN sret.before[1] : sret.before[1][k] # sret.ret
    /\ (sret.op = "intent_handler" /\ ~sret.arg.callable) =>
          /\ sret.exc = None
          /\ sret.ret = Partial(sret.arg)
          /\ dicts = sret.before

\* with one name registered, the decorator applied to a function for another
\* name has added that name and returned the wrapper now registered
C25_Witness ==
    /\ sret.op = "register"
    /\ sret.exc = None
    /\ Cardinality(DOMAIN sret.before[1]) = 1
    /\ Cardinality(DOMAIN Registry) = 2
    /\ Registry[sret.name] = sret.ret
    /\ sret.ret.wraps = sret.handler.id

(***************************************************************************)
(* Properties of the Reprompt counters (checked under SpecReprompt)        *)
(***************************************************************************)
Reprompted == rlast.op = "reprompt"
IntentCounter == CounterName(INTENT, NoEntity)
LastCounter == CounterName(INTENT, rlast.rp.entity)

\* the decimal string of the integer n
Decimal(n) == Str(ToStr(n))

\* the integers whose decimal string the session holds under name
Canon(sess, name) ==
    {n \in (0 - 99)..99 : name \in DOMAIN sess /\ sess[name] = Decimal(n)}

\* chars is the text of an integer: digits from i to j, a sign before them
\* or not, and nothing but blanks around
IsNumber(chars) ==
    \E i \in 1..Len(chars), j \in 1..Len(chars) :
        /\ i <= j
        /\ \A k \in i..j : chars[k] \in DigitChars
        /\ \A k \in (j + 1)..Len(chars) : chars[k] \in Whitespace
        /\ \/ \A k \in 1..(i - 1) : chars[k] \in Whitespace
           \/ /\ i > 1
              /\ chars[i - 1] \in {"-", "+"}
              /\ \A k \in 1..(i - 2) : chars[k] \in Whitespace

\* the session holds under name a string that is not a number
NotANumber(sess, name) ==
    /\ name \in DOMAIN sess
    /\ sess[name].type = "str"
    /\ ~IsNumber(sess[name].chars)

\* C6: a Reprompt without max_reprompts, when <intent>_reprompt_count holds
\* the decimal string of n, is an ASK with the reprompt text and sets the
\* attribute to the decimal string of n+1; a reprompt counter in the session
\* is a string, never a number.
C6_RepromptIncrementsString ==
    Reprompted =>
        /\ \A e \in Entities \cup {NoEntity} :
              CounterName(INTENT, e) \in DOMAIN session
                 => session[CounterName(INTENT, e)].type = "str"
        /\ (rlast.rp.entity = NoEntity /\ rlast.rp.max_reprompts = 0) =>
              \A n \in Canon(rlast.before, IntentCounter) :
                 /\ rlast.out.exc = None
                 /\ rlast.out.type_ = RESPONSE_TYPE_ASK
                 /\ rlast.out.text = rlast.rp.text
                 /\ rlast.out.session = session
                 /\ IntentCounter \in DOMAIN session
                 /\ session[IntentCounter] = Decimal(n + 1)

\* the counter went from '9' to '10'
C6_Witness ==
    /\ Reprompted
    /\ rlast.rp.entity = NoEntity
    /\ rlast.rp.max_reprompts = 0
    /\ IntentCounter \in DOMAIN rlast.before
    /\ rlast.before[IntentCounter] = Str(<<"9">>)
    /\ session[IntentCounter] = Str(<<"1", "0">>)
    /\ rlast.out.type_ = RESPONSE_TYPE_ASK

IncrementedFrom(before, after, name) ==
    /\ name \in DOMAIN after
    /\ name \notin DOMAIN before => after[name] = Decimal(1)
    /\ \A n \in Canon(before, name) : after[name] = Decimal(n + 1)

\* the entry of the session under name is after the reprompt what it was
\* before it
Untouched(before, after, name) ==
    /\ name \in DOMAIN after <=> name \in DOMAIN before
    /\ name \in DOMAIN before => after[name] = before[name]

\* C9 as first stated: a Reprompt with entity E increments two separate
\* counters, <intent>_reprompt_count and <intent>_<E>_reprompt_count, each
\* from '1' when absent, and the counters of the other entities are not
\* affected.
C9_Original_TwoCountersIncremented ==
    (Reprompted /\ rlast.rp.entity # NoEntity) =>
        /\ IncrementedFrom(rlast.before, session, IntentCounter)
        /\ IncrementedFrom(rlast.before, session, LastCounter)
        /\ \A e \in Entities \ {rlast.rp.entity} :
              Untouched(rlast.before, session, CounterName(INTENT, e))

\* C9: a Reprompt with entity E counts under <intent>_<E>_reprompt_count
\* alone: as an ASK, which it is without max_reprompts, it increments that
\* counter, from '1' when absent, and as the stop response it removes it;
\* <intent>_reprompt_count, the counters of the other entities and the rest
\* of the session are left as they were.
C9_EntityCounterAlone ==
    (Reprompted /\ rlast.rp.entity # NoEntity) =>
        /\ rlast.out.exc = None
        /\ rlast.out.session = session
        /\ rlast.rp.max_reprompts = 0 => rlast.out.type_ = RESPONSE_TYPE_ASK
        /\ rlast.out.type_ = RESPONSE_TYPE_ASK =>
              IncrementedFrom(rlast.before, session, LastCounter)
        /\ rlast.out.type_ = RESPONSE_TYPE_TELL => LastCounter \notin DOMAIN session
        /\ \A k \in (DOMAIN rlast.before \cup DOMAIN session) \ {LastCounter} :
              Untouched(rlast.before, session, k)

\* a first reprompt about Time, while the intent's counter is '1' and the
\* counter of Date is '2': Time counts '1', the intent's counter and that of
\* Date stay
C9_Witness ==
    /\ Reprompted
    /\ rlast.rp.entity = "Time"
    /\ CounterName(INTENT, "Time") \notin DOMAIN rlast.before
    /\ IntentCounter \in DOMAIN rlast.before
    /\ rlast.before[IntentCounter] = Str(<<"1">>)
    /\ CounterName(INTENT, "Date") \in DOMAIN rlast.before
    /\ rlast.before[CounterName(INTENT, "Date")] = Str(<<"2">>)
    /\ session[CounterName(INTENT, "Time")] = Str(<<"1">>)
    /\ session[IntentCounter] = Str(<<"1">>)
    /\ session[CounterName(INTENT, "Date")] = Str(<<"2">>)

\* the counter of the reprompt was absent, or held a string that is not a
\* number
BadCounter == LastCounter \notin DOMAIN rlast.before \/ NotANumber(rlast.before, LastCounter)

ContextBuilt == cret.op = "init"
RequestContext == cret.request["context"]
NoSessionGiven ==
    "session" \notin DOMAIN cret.request \/ DOMAIN cret.request["session"] = {}
SessionGiven ==
    "session" \in DOMAIN cret.request /\ DOMAIN cret.request["session"] # {}

\* C11: a Context built from a request without session ('session' absent, or
\* an empty object) has a fresh session: session_id None, new_session True
\* and no attributes.
C11_NoSessionFreshSession ==
    (ContextBuilt /\ NoSessionGiven) =>
        /\ cret.out.exc = None
        /\ cx = cret.out
        /\ cx.session.session_id = None
        /\ cx.session.new_session = TRUE
        /\ DOMAIN cx.session.attributes = {}

\* the request carried 'session': {}
C11_Witness ==
    /\ ContextBuilt
    /\ "session" \in DOMAIN cret.request
    /\ DOMAIN cret.request["session"] = {}
    /\ cx.exc = None
    /\ cx.session.session_id = None
    /\ cx.session.new_session = TRUE

\* the fields of the Context other than the session are those of the request
\* context, tokens and configuration being empty when not given
FieldsOfRequestContext ==
    /\ cx.intent_name = RequestContext["intent"]
    /\ cx.locale = [language |-> RequestContext["locale"]]
    /\ "tokens" \in DOMAIN RequestContext => cx.tokens = RequestContext["tokens"]
    /\ "tokens" \notin DOMAIN RequestContext => DOMAIN cx.tokens = {}
    /\ "configuration" \in DOMAIN RequestContext
          => cx.configuration = RequestContext["configuration"]
    /\ "configuration" \notin DOMAIN RequestContext => DOMAIN cx.configuration = {}

\* the session of the Context is the one of the request
SessionOfRequest ==
    /\ cx.session.session_id = cret.request["session"]["id"]
    /\ cx.session.new_session = cret.request["session"]["new"]
    /\ "attributes" \in DOMAIN cret.request["session"]
          => cx.session.attributes = cret.request["session"]["attributes"]
    /\ "attributes" \notin DOMAIN cret.request["session"]
          => DOMAIN cx.session.attributes = {}

\* C12 as claimed: a Context built from a request with a non-empty session
\* object has a session with the id, the new flag and the attributes of the
\* request's session (no attributes when that key is absent), and the intent
\* name, locale, tokens and configuration of the request context.
C12_Original_AnySessionObject ==
    (ContextBuilt /\ SessionGiven) =>
        /\ cret.out.exc = None
        /\ cx = cret.out
        /\ SessionOfRequest
        /\ FieldsOfRequestContext

\* C12, amended: that holds of a non-empty session object that has both the
\* keys 'id' and 'new'; when one of them is missing the construction raises
\* KeyError and there is no Context.
C12_SessionWithIdAndNew ==
    (ContextBuilt /\ SessionGiven) =>
        IF {"id", "new"} \subseteq DOMAIN cret.request["session"]
        THEN /\ cret.out.exc = None
             /\ cx = cret.out
             /\ SessionOfRequest
             /\ FieldsOfRequestContext
        ELSE /\ cret.out.exc = "KeyError"
             /\ cx = NoContext

\* a session with id, new = False and two attributes, in a request without
\* tokens and configuration
C12_Witness ==
    /\ ContextBuilt
    /\ SessionGiven
    /\ DOMAIN cret.request["session"] = {"id", "new", "attributes"}
    /\ cret.request["session"]["new"] = FALSE
    /\ DOMAIN RequestContext \cap {"tokens", "configuration"} = {}
    /\ cx.exc = None
    /\ cx.session.session_id = "12345"
    /\ cx.session.new_session = FALSE
    /\ DOMAIN cx.session.attributes = {"key-1", "key-2"}
    /\ DOMAIN cx.tokens = {}

\* the values of the 'timezone' attribute of the Context
TimezoneValues == DictGet(cx.attributes, "timezone", <<>>)

\* C17: gettz returns the timezone named by the first value of the
\* 'timezone' attribute; when the attribute is missing (or has no value) or
\* its first value names no known timezone, it returns UTC and logs exactly
\* one error.
C17_GettzNamedZoneOrUtc ==
    cret.op = "gettz" =>
        IF TimezoneValues # <<>> /\ TimezoneValues[1] \in KnownZones
        THEN cret.out.tz = TimezoneValues[1] /\ cret.out.errors = 0
        ELSE cret.out.tz = UTC /\ cret.out.errors = 1

\* the timezone of the device, as Context.gettz gives it
DeviceZone == gettz(cx, machine_tz).tz

\* the current date in the timezone of the device
DeviceDay ==
    IF clock.hour + UtcOffset(DeviceZone, clock) >= 24 THEN clock.day + 1
    ELSE clock.day

DateValues == DictGet(cx.attributes, "date", <<>>)
EarlierDates == {d \in {DateValues[i] : i \in 1..Len(DateValues)} : d < DeviceDay}

\* C18: closest_previous_date returns the latest of the values of the 'date'
\* attribute that is strictly earlier than the current date of the device (a
\* date equal to the device's today is not eligible, even when it is later
\* than the date in UTC); without values it returns the device's current date.
C18_ClosestPreviousDate ==
    cret.op = "closest_previous_date" =>
        /\ EarlierDates # {} =>
              /\ cret.out \in EarlierDates
              /\ \A d \in EarlierDates : d <= cret.out
        /\ DateValues = <<>> => cret.out = DeviceDay

\* at 23h UTC in winter a device in Europe/Berlin is already in the next day;
\* that day is among the dates, and an earlier one is returned
C18_Witness ==
    /\ cret.op = "closest_previous_date"
    /\ clock.hour = 23
    /\ ~IsSummer(clock)
    /\ DeviceZone = "Europe/Berlin"
    /\ DeviceDay = clock.day + 1
    /\ Len(DateValues) = 2
    /\ DateValues[1] = DeviceDay
    /\ DateValues[2] < DeviceDay
    /\ cret.out = DateValues[2]

(***************************************************************************)
(* Properties of Response and ErrorResponse (checked under SpecResponse)   *)
(***************************************************************************)
Serialized == pret.op = "dict"

\* C13: Response.dict(context) writes the session of the context into the
\* response: the attributes of the 'session' entry are exactly the key-value
\* pairs the session holds at that time (those of the request and what the
\* request's handling has changed), and there is no 'session' entry when the
\* session holds no attributes.
C13_SessionWrittenBack ==
    Serialized =>
        IF DOMAIN cx.session.attributes = {}
        THEN "session" \notin DOMAIN pret.out
        ELSE /\ "session" \in DOMAIN pret.out
             /\ pret.out["session"] = [attributes |-> cx.session.attributes]

\* the two attributes of the request and one set during the request
C13_Witness ==
    /\ Serialized
    /\ DOMAIN cx.session.attributes = {"key-1", "key-2", "key-3"}
    /\ cx.session.attributes["key-1"] = "value-9"
    /\ DOMAIN pret.out["session"].attributes = {"key-1", "key-2", "key-3"}
    /\ pret.out["session"].attributes["key-1"] = "value-9"
    /\ pret.out["session"].attributes["key-2"] = "value-2"

\* C14: Response.dict(context) always has 'text' and 'type', and has each of
\* 'card', 'result' and 'pushNotification' if and only if that field of the
\* Response is set and not empty; an unset field is never written as an empty
\* or null entry.
C14_OptionalEntriesIffSet ==
    Serialized =>
        /\ {"text", "type"} \subseteq DOMAIN pret.out
        /\ pret.out["text"] = response.text
        /\ pret.out["type"] = response.type_
        /\ "card" \in DOMAIN pret.out <=> response.card # Unset
        /\ "result" \in DOMAIN pret.out <=> DOMAIN response.result.data # {}
        /\ "pushNotification" \in DOMAIN pret.out <=>
              (response.push_notification # Unset
                  /\ DOMAIN response.push_notification[1] # {})
        /\ "result" \in DOMAIN pret.out => pret.out["result"].data = response.result.data
        /\ "pushNotification" \in DOMAIN pret.out
              => pret.out["pushNotification"] = response.push_notification[1]

\* a Response with a card and a push notification and without result data
C14_Witness ==
    /\ Serialized
    /\ response.card # Unset
    /\ response.push_notification # Unset
    /\ DOMAIN response.result.data = {}
    /\ DOMAIN pret.out \ {"session"} = {"text", "type", "card", "pushNotification"}

\* C15: a Response carries one of the types TELL, ASK, ASK_FREETEXT:
\* Response(...) with another type raises ValueError, the type is TELL when
\* not given, and tell(), ask(), ask_freetext() give a Response of type TELL,
\* ASK, ASK_FREETEXT.
C15_ResponseTypes ==
    /\ response.kind = "Response" => response.type_ \in ResponseTypes
    /\ pret.op = "Response" =>
          /\ pret.type_ = Unset =>
                pret.out.exc = None /\ response.type_ = RESPONSE_TYPE_TELL
          /\ (pret.type_ # Unset /\ pret.type_[1] \in ResponseTypes) =>
                pret.out.exc = None /\ response.type_ = pret.type_[1]
          /\ (pret.type_ # Unset /\ pret.type_[1] \notin ResponseTypes) =>
                pret.out.exc = "ValueError" /\ response = NoResponse
    /\ pret.op = "tell" =>
          response.kind = "Response" /\ response.type_ = RESPONSE_TYPE_TELL
    /\ pret.op = "ask" =>
          response.kind = "Response" /\ response.type_ = RESPONSE_TYPE_ASK
    /\ pret.op = "ask_freetext" =>
          response.kind = "Response" /\ response.type_ = RESPONSE_TYPE_ASK_FREETEXT

\* Response('...', 'TEL') has raised ValueError
C15_Witness ==
    /\ pret.op = "Response"
    /\ pret.type_ = Some("TEL")
    /\ pret.out.exc = "ValueError"
    /\ response = NoResponse

\* C16: ErrorResponse.as_response gives the status 400 for code 2 (invalid
\* token), 500 for code 999 (unhandled exception) and 500 for a code that is
\* no known error code; Response.as_response gives the status 200.
C16_StatusOfResponse ==
    pret.op = "as_response" =>
        IF response.kind = "Response" THEN pret.out.status = 200
        ELSE /\ response.code = 2 => pret.out.status = 400
             /\ response.code = 999 => pret.out.status = 500
             /\ response.code \notin {2, 999} => pret.out.status = 500

\* ErrorResponse(123, ...) gave the status 500
C16_Witness ==
    /\ pret.op = "as_response"
    /\ response.kind = "ErrorResponse"
    /\ response.code = 123
    /\ pret.out.status = 500

(***************************************************************************)
(* Properties of the header codec (checked under SpecTracing)              *)
(***************************************************************************)
Extracted == tret.op = "extract" /\ tret.format = FORMAT_HTTP_HEADERS

\* C26: extract applied to the carrier that inject has just written gives a
\* span context with the trace_id, span_id and testing that were injected;
\* extract finds each header under any spelling of its name in upper and
\* lower case and gives None for a header the carrier has under no
\* spelling; inject and extract raise InvalidCarrierException for a carrier
\* that is not a dict.
C26_InjectExtractRoundTrip ==
    /\ (Extracted /\ tret.injected # Unset) =>
          (tret.exc = None /\ tret.ret = tret.injected[1])
    /\ (Extracted /\ tret.before.isdict) =>
          /\ tret.exc = None
          /\ \A i \in 1..Len(tret.before.items) :
                (/\ Lower(tret.before.items[i][1]) = Lower(trace_header)
                 /\ \A j \in 1..Len(tret.before.items) :
                       Lower(tret.before.items[j][1]) = Lower(trace_header) => j = i)
                    => tret.ret.trace_id = tret.before.items[i][2]
          /\ (\A i \in 1..Len(tret.before.items) :
                  Lower(tret.before.items[i][1]) # Lower(testing_header))
                => tret.ret.testing = None
    /\ (tret.op \in {"inject", "extract"} /\ tret.format = FORMAT_HTTP_HEADERS
           /\ ~tret.before.isdict) =>
          (tret.exc = "InvalidCarrierException" /\ carrier = tret.before)

(***************************************************************************)
(* Properties of the current context of threads (checked under SpecThreads)*)
(***************************************************************************)
Installed == lret.op \in {"new", "set_current"}

\* what a thread sees: the outcome of get_current() and of an attribute
\* read through the proxy
Seen(ls, objs, t) == <<local_get_current(ls, t), local_getattr(ls, objs, t)>>

\* a Context construction or a set_current in one thread leaves what every
\* other thread sees as it was
OtherThreadsUntouched ==
    Installed =>
        \A u \in Threads \ {lret.thread} :
            Seen(locals, made, u) = Seen(lret.before, lret.objects, u)

\* the Context objects thread t has constructed
MadeBy(t) == {i \in 1..Len(made) : made[i].by = t}

\* C27 as stated: the current context is per thread, and in a thread that
\* has constructed a Context the current context is the one it constructed
\* last.
C27_Original_MostRecentlyConstructed ==
    /\ OtherThreadsUntouched
    /\ \A t \in Threads :
          MadeBy(t) # {} => locals[t] = Latest(MadeBy(t))

\* C27: a Context construction or a set_current in one thread never
\* changes what get_current or an attribute read through the proxy gives in
\* another thread; in the thread itself the current context is the Context
\* just constructed, or the object just given to set_current.  Reading
\* changes nothing, and an assignment through the proxy changes no
\* thread's current context: it writes on the current Context object of
\* the assigning thread and on nothing else.
C27_CurrentContextPerThread ==
    /\ OtherThreadsUntouched
    /\ Installed =>
          /\ local_get_current(locals, lret.thread) = [exc |-> None, ret |-> lret.arg]
          /\ lret.op = "new" => lret.arg = Latest(MadeBy(lret.thread))
    /\ lret.op \in {"get_current", "getattr"} =>
          (locals = lret.before /\ made = lret.objects)
    /\ lret.op = "setattr" =>
          /\ locals = lret.before
          /\ Len(made) = Len(lret.objects)
          /\ \A i \in 1..Len(made) :
                IF i = locals[lret.thread]
                THEN made[i] = [lret.objects[i] EXCEPT !.intent_name = lret.arg]
                ELSE made[i] = lret.objects[i]

\* thread 2 has constructed a Context while thread 1 had one of its own as
\* current, with a name assigned through the proxy: each thread has its
\* own, and thread 1 sees what it saw
C27_Witness ==
    /\ lret.op = "new"
    /\ lret.thread = 2
    /\ lret.before[1] \in MadeBy(1)
    /\ made[lret.before[1]].intent_name \in AssignedNames
    /\ locals[1] = lret.before[1]
    /\ locals[2] = lret.arg
    /\ locals[2] # locals[1]

====
